---- MODULE Spec2Model ----
(***************************************************************************)
(* Insider Trading Tracker: the Express server (cache, validation,         *)
(* per-symbol transform, fan-out aggregation, GET /api/insider-trades),    *)
(* its shutdown, the earnings calendar function (GET /api/earnings), and   *)
(* the two browser pages: the tracker (loadData with retries, debounce)    *)
(* and the dashboard (filters, sorting, pagination).                       *)
(*                                                                         *)
(* Representation of JavaScript values:                                    *)
(*  - an optional property of an upstream JSON object is a sequence of     *)
(*    length 0 (undefined / null) or 1 (the value);                        *)
(*  - a date string is a record [form, y, m, d]: form = "ymd" for a string *)
(*    matching /^\d{4}-\d{2}-\d{2}$/ with the three numeric fields,        *)
(*    form = "other" for any other non-empty string, form = "absent" for   *)
(*    a falsy value (undefined or '');                                     *)
(*  - Date values are day numbers (the code only compares and subtracts    *)
(*    them, and every date involved is a date-only UTC midnight).          *)
(***************************************************************************)
EXTENDS Integers, Sequences, FiniteSets, TLC

VARIABLES raw, out,                      \* one function on its own: input, outcome
          pool, fetch,                   \* the upstream and the fan-out calls
          ENABLE_CACHING, now, nextSweep, cache,
          lastSet, lastGet,              \* history of direct cache calls
          handler, lastRes,              \* the request handlers
          proc,                          \* the server process and its shutdown
          ui                             \* the dashboard in the browser

vars == <<raw, out, pool, fetch, ENABLE_CACHING, now, nextSweep, cache,
          lastSet, lastGet, handler, lastRes, proc, ui>>

\* ------------------------------------------------------------------------
\* Bounds of the model
\* ------------------------------------------------------------------------

\* longest upstream payload (number of raw entries) fed to the transform
MaxLen == 2


\* ------------------------------------------------------------------------
\* Dates
\* ------------------------------------------------------------------------

Absent == [form |-> "absent", y |-> 0, m |-> 0, d |-> 0]

Other == [form |-> "other", y |-> 0, m |-> 0, d |-> 0]

Ymd(y, m, d) == [form |-> "ymd", y |-> y, m |-> m, d |-> d]

IsLeap(y) == (y % 4 = 0 /\ y % 100 # 0) \/ y % 400 = 0

DaysInMonth(y, m) ==
  IF m = 2 THEN (IF IsLeap(y) THEN 29 ELSE 28)
  ELSE IF m \in {4, 6, 9, 11} THEN 30 ELSE 31

DaysBeforeMonth(y, m) ==
  <<0, 31, 59, 90, 120, 151, 181, 212, 243, 273, 304, 334>>[m]
    + (IF m > 2 /\ IsLeap(y) THEN 1 ELSE 0)

\* days from 0000-01-01 to the first day of year y
DaysBeforeYear(y) ==
  365 * y + ((y + 3) \div 4) - ((y + 99) \div 100) + ((y + 399) \div 400)

NaN == 0 - 1

\* new Date(s).getTime() of V8 for a date string, in days: NaN unless the
\* string has the YYYY-MM-DD form with month 1..12 and day 1..31; a day past
\* the end of the month rolls over into the next month.
ParseDate(s) ==
  IF s.form # "ymd" \/ s.m \notin 1..12 \/ s.d \notin 1..31 THEN NaN
  ELSE DaysBeforeYear(s.y) + DaysBeforeMonth(s.y, s.m) + s.d

\* ------------------------------------------------------------------------
\* Values of the observation variables when nothing has been observed
\* ------------------------------------------------------------------------

NotCalled == [called |-> FALSE, transformed |-> <<>>, result |-> <<>>]

NoGet == [called |-> FALSE, key |-> "", value |-> <<>>]

\* no response was sent by the step that led to this state
NoResponse ==
  [ sent |-> FALSE, by |-> 0, from |-> Absent, to |-> Absent, key |-> <<>>,
    lookups |-> 0, issued |-> 0, status |-> 0, body |-> [success |-> FALSE] ]

IdleHandler == [pc |-> "idle", key |-> <<>>, from |-> Absent, to |-> Absent]

\* the server process once the module is loaded: server is set (app.listen
\* has returned) and no shutdown signal was received; elapsed is the time
\* since the first signal, timers the times at which the forced-exit timers
\* fire, exit the exit code once the process has exited
Running ==
  [ server |-> TRUE, phase |-> "running", signal |-> "", elapsed |-> 0,
    timers |-> {}, exit |-> <<>> ]

\* no dashboard page is open
NoUi == [page |-> "none"]

\* ------------------------------------------------------------------------
\* transformFinnhubData
\* ------------------------------------------------------------------------

Undefined == <<>>

\* JavaScript truthiness of an optional number / string / date string
TruthyNum(x) == x # <<>> /\ x[1] # 0

TruthyStr(x) == x # <<>> /\ x[1] # ""

TruthyDate(x) == x # <<>> /\ x[1].form # "absent"

Abs(n) == IF n < 0 THEN -n ELSE n

\* a filter that ignores the transactionDate fallback
RetainEntryFilingOnly(t) ==
  /\ TruthyStr(t.symbol)
  /\ TruthyNum(t.share)
  /\ t.share # <<0>>
  /\ TruthyDate(t.filingDate)

\* the predicate of the first .filter
RetainEntry(t) ==
  /\ TruthyStr(t.symbol)
  /\ TruthyNum(t.share)
  /\ t.share # <<0>>
  /\ (TruthyDate(t.filingDate) \/ TruthyDate(t.transactionDate))

\* finnhubData.data.filter(...)
RECURSIVE FilterRetained(_)
FilterRetained(s) ==
  IF s = <<>> THEN <<>>
  ELSE IF RetainEntry(Head(s)) THEN <<Head(s)>> \o FilterRetained(Tail(s))
       ELSE FilterRetained(Tail(s))

\* the body of .map
MapEntry(t) ==
  [ symbol           |-> t.symbol[1],
    personName       |-> IF TruthyStr(t.name) THEN t.name[1] ELSE "Unknown",
    share            |-> Abs(t.share[1]),
    change           |-> IF TruthyNum(t.change) THEN t.change[1] ELSE 0,
    filingDate       |-> IF TruthyDate(t.filingDate) THEN t.filingDate[1]
                         ELSE t.transactionDate[1],
    transactionDate  |-> t.transactionDate,
    transactionPrice |-> IF TruthyNum(t.transactionPrice)
                         THEN t.transactionPrice[1] ELSE 0,
    transactionCode  |-> IF TruthyStr(t.transactionCode)
                         THEN t.transactionCode[1] ELSE "N/A" ]

\* the predicate of the findIndex callback
SameKey(t, u) ==
  /\ t.symbol = u.symbol
  /\ t.filingDate = u.filingDate
  /\ t.personName = u.personName
  /\ t.share = u.share

\* findLastIndex in place of findIndex: the last entry of a key would win
FindLastIndex(self, i) ==
  CHOOSE j \in 1..Len(self) :
    /\ SameKey(self[j], self[i])
    /\ \A k \in (j + 1)..Len(self) : ~SameKey(self[k], self[i])

\* self.findIndex(...): the first index whose entry has the key of self[i]
FindIndex(self, i) ==
  CHOOSE j \in 1..Len(self) :
    /\ SameKey(self[j], self[i])
    /\ \A k \in 1..(j - 1) : ~SameKey(self[k], self[i])

\* the second .filter: index === self.findIndex(...)
UniqueTransactions(self) ==
  LET Idx == {i \in 1..Len(self) : i = FindIndex(self, i)}
      RECURSIVE Pick(_)
      Pick(i) == IF i > Len(self) THEN <<>>
                 ELSE IF i \in Idx THEN <<self[i]>> \o Pick(i + 1)
                      ELSE Pick(i + 1)
  IN Pick(1)

\* the sort comparator: dateB - dateA (NaN, taken as 0, when a date does not
\* parse)
CompareFilingDate(a, b) ==
  IF ParseDate(a.filingDate) = NaN \/ ParseDate(b.filingDate) = NaN THEN 0
  ELSE ParseDate(b.filingDate) - ParseDate(a.filingDate)

\* the place of s[i] after a sort that puts records of equal filing date in reverse input order
SortedPositionTiesReversed(s, i) ==
  1 + Cardinality({j \in 1..Len(s) :
        \/ CompareFilingDate(s[j], s[i]) < 0
        \/ (CompareFilingDate(s[j], s[i]) = 0 /\ j > i)})

\* the place of s[i] after a stable sort: behind every element the comparator
\* puts before it and behind the earlier elements it compares equal to
SortedPosition(s, i) ==
  1 + Cardinality({j \in 1..Len(s) :
        \/ CompareFilingDate(s[j], s[i]) < 0
        \/ (CompareFilingDate(s[j], s[i]) = 0 /\ j < i)})

\* Array.prototype.sort with the filing-date comparator (a stable sort);
\* t is the array s, evaluated once
SortByFilingDate(s) ==
  CHOOSE sorted \in
    { [p \in 1..Len(t) |-> t[CHOOSE i \in 1..Len(t) : SortedPosition(t, i) = p]] :
        t \in {s} } : TRUE

\* the constant uniqueTransactions of transformFinnhubData before it is
\* sorted: the retained, mapped and deduplicated entries in payload order
uniqueTransactions(finnhubData) ==
  IF ~finnhubData.hasData THEN <<>>
  ELSE LET kept == FilterRetained(finnhubData.data)
           transformed == [i \in 1..Len(kept) |-> MapEntry(kept[i])]
       IN UniqueTransactions(transformed)

\* a payload is [hasData |-> BOOLEAN, data |-> sequence of raw entries]
transformFinnhubData(finnhubData) ==
  IF ~finnhubData.hasData THEN <<>>
  ELSE LET kept == FilterRetained(finnhubData.data)
           transformed == [i \in 1..Len(kept) |-> MapEntry(kept[i])]
       IN SortByFilingDate(UniqueTransactions(transformed))

\* ------------------------------------------------------------------------
\* The cache
\* ------------------------------------------------------------------------

\* time-to-live of an entry, in clock ticks
CACHE_TTL == 2

\* the clock stops after two time-to-live periods, so that the second run of
\* the sweep meets entries older than CACHE_TTL
MaxTime == 2 * CACHE_TTL

\* new Map()
EmptyMap == [k \in {} |-> 0]

\* an expiry test that already fires at age CACHE_TTL
ExpiredOffByOne(key) == now - cache[key].timestamp >= CACHE_TTL

\* an expiry test that never fires
ExpiredNever(key) == FALSE

\* now - cached.timestamp > CACHE_TTL
Expired(key) == now - cache[key].timestamp > CACHE_TTL

\* what getCache(key) returns: <<>> for null, <<data>> for cached.data
getCache(key) ==
  IF ~ENABLE_CACHING THEN <<>>
  ELSE IF key \notin DOMAIN cache THEN <<>>
  ELSE IF Expired(key) THEN <<>>
  ELSE <<cache[key].data>>

\* a getCache that never deletes
cacheAfterGetKeep(key) == cache

\* the map after getCache(key): an expired entry is deleted
cacheAfterGet(key) ==
  IF ENABLE_CACHING /\ key \in DOMAIN cache /\ Expired(key)
  THEN [k \in DOMAIN cache \ {key} |-> cache[k]]
  ELSE cache

\* a setCache that stores nothing
setCacheNoop(key, data) == cache

\* a setCache that ignores ENABLE_CACHING
setCacheAlways(key, data) ==
  [k \in DOMAIN cache \cup {key} |->
     IF k = key THEN [data |-> data, timestamp |-> now] ELSE cache[k]]

\* a setCache that keeps the timestamp of the entry it overwrites
setCacheKeepStamp(key, data) ==
  IF ~ENABLE_CACHING THEN cache
  ELSE [k \in DOMAIN cache \cup {key} |->
          IF k = key
          THEN [data |-> data,
                timestamp |-> IF key \in DOMAIN cache THEN cache[key].timestamp
                              ELSE now]
          ELSE cache[k]]

\* the map after setCache(key, data)
setCache(key, data) ==
  IF ~ENABLE_CACHING THEN cache
  ELSE [k \in DOMAIN cache \cup {key} |->
          IF k = key THEN [data |-> data, timestamp |-> now] ELSE cache[k]]

\* a sweep that already evicts at age CACHE_TTL
sweptCacheOffByOne ==
  [k \in {k \in DOMAIN cache : ~(now - cache[k].timestamp >= CACHE_TTL)} |-> cache[k]]

\* the map after the setInterval callback
\* a sweep that removes nothing
sweptCacheKeepAll == cache

sweptCache ==
  [k \in {k \in DOMAIN cache : ~(now - cache[k].timestamp > CACHE_TTL)} |-> cache[k]]

\* the record of a call setCache(key, data): what was passed, when, and the
\* entry the map held for the key at the call, if any
SetRecord(key, data) ==
  [ data |-> data, timestamp |-> now,
    prior |-> IF key \in DOMAIN cache THEN <<cache[key]>> ELSE <<>> ]

\* ------------------------------------------------------------------------
\* fetchAllTransactions
\* ------------------------------------------------------------------------

\* the tracked symbols (the first two of the fifty)
MAJOR_SYMBOLS == <<"AAPL", "MSFT">>

\* the requests the server receives, numbered in their order of arrival;
\* each runs the handler once and they may be in flight together
Handlers == {1, 2}

\* the callers of the specifications of fetchAllTransactions alone
Callers == {1, 2}

NoPayload == [hasData |-> FALSE, data |-> <<>>]

\* an axios error without a response (timeout, network error)
NoResponseError == [response |-> <<>>, request |-> TRUE]

\* an axios error carrying the 401 the upstream answers to a bad token
Unauthorized == [response |-> <<401>>, request |-> TRUE]

\* the ways one per-symbol request may fail
UpstreamErrors == {NoResponseError, Unauthorized}

\* axios.get(...) just issued for one symbol: the promise chain
\* axios.get().then().catch() is pending and the upstream has not answered
NewPromise(symbol) ==
  [ symbol |-> symbol, state |-> "pending", value |-> <<>>,
    upstream |-> "pending", payload |-> NoPayload, error |-> <<>> ]

\* a .catch that lets the error through: the chain would reject
CatchRethrow == [state |-> "rejected", value |-> <<>>]

\* the .catch callback returns []: the chain fulfils with the empty list
CatchOutcome == [state |-> "fulfilled", value |-> <<>>]

\* the .then callback returns the transformed payload
ThenOutcome(payload) ==
  [state |-> "fulfilled", value |-> transformFinnhubData(payload)]

\* a combinator that settles with the first fulfilled promise
PromiseAnyState(promises) ==
  IF \E i \in 1..Len(promises) : promises[i].state = "fulfilled" THEN "fulfilled"
  ELSE IF \A i \in 1..Len(promises) : promises[i].state = "rejected" THEN "rejected"
  ELSE "pending"

\* Promise.all: rejected as soon as one promise is rejected, fulfilled once
\* every promise is fulfilled, pending otherwise
PromiseAllState(promises) ==
  IF \E i \in 1..Len(promises) : promises[i].state = "rejected" THEN "rejected"
  ELSE IF \A i \in 1..Len(promises) : promises[i].state = "fulfilled" THEN "fulfilled"
  ELSE "pending"

\* results.flat()
RECURSIVE Flat(_)
Flat(results) ==
  IF results = <<>> THEN <<>> ELSE Head(results) \o Flat(Tail(results))

\* the merge without the global sort
AllTransactionsUnsorted(promises) ==
  Flat([i \in 1..Len(promises) |-> promises[i].value])

\* results.flat() followed by allTransactions.sort(...)
AllTransactions(promises) ==
  SortByFilingDate(Flat([i \in 1..Len(promises) |-> promises[i].value]))

\* settled lists the symbols' positions in the order their requests completed
NoFetch == [status |-> "idle", promises |-> <<>>, result |-> <<>>, settled |-> <<>>]

\* the synchronous start of fetchAllTransactions: one axios.get per symbol
StartedFetch ==
  [ status |-> "running",
    promises |-> [i \in 1..Len(MAJOR_SYMBOLS) |-> NewPromise(MAJOR_SYMBOLS[i])],
    result |-> <<>>, settled |-> <<>> ]

\* the reason Promise.all rejects with: that of a rejected promise
Rejection(promises) ==
  LET i == CHOOSE i \in 1..Len(promises) : promises[i].state = "rejected"
  IN promises[i].error[1]

\* a combinator that delivers the values in the order the promises settled
PromisesAsSettled(f) == [k \in 1..Len(f.settled) |-> f.promises[f.settled[k]]]

\* Promise.all delivers the values in the order of the promises it was given
PromisesAsGiven(f) == f.promises

\* the state of the call once the await of Promise.all resumes
ResumedFetch(f) ==
  IF PromiseAllState(f.promises) = "rejected"
  THEN [f EXCEPT !.status = "threw"]
  ELSE [f EXCEPT !.status = "returned",
                 !.result = AllTransactions(PromisesAsGiven(f))]

\* the upstream answers symbol i of call r with a 2xx and a payload
UpstreamOk(r, i, payload) ==
  /\ fetch[r].status = "running"
  /\ fetch[r].promises[i].upstream = "pending"
  /\ fetch' = [fetch EXCEPT ![r].promises[i] =
                 [ symbol |-> @.symbol, state |-> ThenOutcome(payload).state,
                   value |-> ThenOutcome(payload).value,
                   upstream |-> "ok", payload |-> payload, error |-> <<>> ],
                              ![r].settled = Append(@, i)]
  /\ lastRes' = NoResponse
  /\ UNCHANGED <<proc, ui, raw, out, pool, ENABLE_CACHING, now, nextSweep, cache,
                 lastSet, lastGet, handler>>

\* the request for symbol i of call r fails (timeout, network error, non-2xx)
UpstreamError(r, i, error) ==
  /\ fetch[r].status = "running"
  /\ fetch[r].promises[i].upstream = "pending"
  /\ fetch' = [fetch EXCEPT ![r].promises[i] =
                 [ symbol |-> @.symbol, state |-> CatchOutcome.state,
                   value |-> CatchOutcome.value,
                   upstream |-> "error", payload |-> NoPayload,
                   error |-> <<error>> ],
                              ![r].settled = Append(@, i)]
  /\ lastRes' = NoResponse
  /\ UNCHANGED <<proc, ui, raw, out, pool, ENABLE_CACHING, now, nextSweep, cache,
                 lastSet, lastGet, handler>>

\* ------------------------------------------------------------------------
\* Initial values shared by the specifications
\* ------------------------------------------------------------------------

TransformQuiet == raw = NoPayload /\ out = NotCalled

FetchQuiet == fetch = [r \in Handlers |-> NoFetch]

CacheStart ==
  /\ now = 0
  /\ nextSweep = CACHE_TTL
  /\ cache = EmptyMap
  /\ lastSet = EmptyMap
  /\ lastGet = NoGet

ServerQuiet ==
  /\ handler = [r \in Handlers |-> IdleHandler]
  /\ lastRes = NoResponse
  /\ proc = Running
  /\ ui = NoUi

\* ------------------------------------------------------------------------
\* Specification of the transform alone: one upstream payload, transformed
\* ------------------------------------------------------------------------

D1 == Ymd(2025, 1, 1)

D3 == Ymd(2025, 1, 3)

D5 == Ymd(2025, 1, 5)

Entry(sym, nm, sh, fd, td, ch, pr, code) ==
  [ symbol |-> sym, name |-> nm, share |-> sh, change |-> ch,
    filingDate |-> fd, transactionDate |-> td,
    transactionPrice |-> pr, transactionCode |-> code ]

\* raw upstream entries: every combination of present / absent / zero of the
\* fields the filter reads, and entries that differ outside the dedup key
RawEntries ==
  { Entry(sym, <<>>, sh, fd, td, <<>>, <<>>, <<>>) :
      sym \in {<<>>, <<"AAPL">>}, sh \in {<<>>, <<0>>, <<100>>, <<-100>>},
      fd \in {<<>>, <<D5>>}, td \in {<<>>, <<D1>>} }
  \cup
  { Entry(<<"">>, <<>>, <<100>>, <<D5>>, <<>>, <<>>, <<>>, <<>>),
    Entry(<<"AAPL">>, <<"Unknown">>, <<100>>, <<D5>>, <<>>, <<>>, <<>>, <<>>),
    Entry(<<"AAPL">>, <<"Cook">>, <<100>>, <<D5>>, <<>>, <<>>, <<>>, <<>>),
    Entry(<<"AAPL">>, <<>>, <<100>>, <<D1>>, <<>>, <<>>, <<>>, <<>>),
    Entry(<<"MSFT">>, <<>>, <<100>>, <<D5>>, <<>>, <<>>, <<>>, <<>>),
    Entry(<<"AAPL">>, <<>>, <<100>>, <<D5>>, <<>>, <<7>>, <<10>>, <<"P">>),
    Entry(<<"AAPL">>, <<>>, <<-100>>, <<D5>>, <<D1>>, <<-3>>, <<-2>>, <<"S">>),
    Entry(<<"AAPL">>, <<>>, <<100>>, <<Absent>>, <<D1>>, <<0>>, <<0>>, <<"">>),
    Entry(<<"AAPL">>, <<>>, <<100>>, <<D3>>, <<>>, <<>>, <<5>>, <<"M">>) }

RawPayloads ==
  { NoPayload } \cup
  { [hasData |-> TRUE, data |-> d] :
      d \in UNION { [1..n -> RawEntries] : n \in 0..MaxLen } }

\* the list named transformed in the code: filtered and mapped, before dedup
Transformed(finnhubData) ==
  IF ~finnhubData.hasData THEN <<>>
  ELSE LET kept == FilterRetained(finnhubData.data)
       IN [i \in 1..Len(kept) |-> MapEntry(kept[i])]

TransformInit ==
  /\ raw \in RawPayloads
  /\ out = NotCalled
  /\ pool = {}
  /\ ENABLE_CACHING = TRUE
  /\ FetchQuiet /\ CacheStart /\ ServerQuiet

Transform ==
  /\ ~out.called
  /\ out' = [called |-> TRUE, transformed |-> Transformed(raw),
             result |-> transformFinnhubData(raw)]
  /\ UNCHANGED <<proc, ui, raw, pool, fetch, ENABLE_CACHING, now, nextSweep, cache,
                 lastSet, lastGet, handler, lastRes>>

SpecTransform == TransformInit /\ [][Transform]_vars

\* ------------------------------------------------------------------------
\* Specification of fetchAllTransactions alone: direct calls, any answers
\* ------------------------------------------------------------------------

Rec(sym, fd, pr) ==
  Entry(<<sym>>, <<"Cook">>, <<100>>, <<fd>>, <<>>, <<>>, <<pr>>, <<"P">>)

Payload(data) == [hasData |-> TRUE, data |-> data]

\* what the upstream may answer to one per-symbol request; every filing date
\* is a real calendar date, as the upstream sends them
FetchPayloads ==
  { NoPayload,
    Payload(<<>>),
    Payload(<<Rec("AAPL", D1, 10)>>),
    Payload(<<Rec("AAPL", D5, 10)>>),
    Payload(<<Rec("AAPL", D1, 10), Rec("AAPL", D5, 10), Rec("AAPL", D5, 20)>>),
    Payload(<<Rec("MSFT", D3, 10), Rec("MSFT", D5, 10)>>),
    Payload(<<Rec("MSFT", D5, 10), Rec("AAPL", D5, 10)>>),
    Payload(<<Entry(<<"MSFT">>, <<>>, <<0>>, <<D5>>, <<>>, <<>>, <<>>, <<>>)>>) }

FetchInit ==
  /\ pool = FetchPayloads
  /\ ENABLE_CACHING = TRUE
  /\ TransformQuiet /\ FetchQuiet /\ CacheStart /\ ServerQuiet

\* a caller invokes fetchAllTransactions(from, to)
FetchCall(r) ==
  /\ fetch[r].status = "idle"
  /\ fetch' = [fetch EXCEPT ![r] = StartedFetch]
  /\ lastRes' = NoResponse
  /\ UNCHANGED <<proc, ui, raw, out, pool, ENABLE_CACHING, now, nextSweep, cache,
                 lastSet, lastGet, handler>>

\* the await of Promise.all resumes and the function returns (or throws)
FetchReturn(r) ==
  /\ fetch[r].status = "running"
  /\ PromiseAllState(fetch[r].promises) # "pending"
  /\ fetch' = [fetch EXCEPT ![r] = ResumedFetch(fetch[r])]
  /\ lastRes' = NoResponse
  /\ UNCHANGED <<proc, ui, raw, out, pool, ENABLE_CACHING, now, nextSweep, cache,
                 lastSet, lastGet, handler>>

FetchNext ==
  \/ \E r \in Callers : FetchCall(r)
  \/ \E r \in Callers, i \in 1..Len(MAJOR_SYMBOLS), p \in pool : UpstreamOk(r, i, p)
  \/ \E r \in Callers, i \in 1..Len(MAJOR_SYMBOLS), e \in UpstreamErrors :
       UpstreamError(r, i, e)
  \/ \E r \in Callers : FetchReturn(r)

SpecFetch == FetchInit /\ [][FetchNext]_vars

\* the answers used when checking progress of the calls
BarrierPayloads ==
  { Payload(<<Rec("AAPL", D1, 10)>>),
    Payload(<<Rec("MSFT", D3, 10), Rec("MSFT", D5, 10)>>) }

FairFetchInit ==
  /\ pool = BarrierPayloads
  /\ ENABLE_CACHING = TRUE
  /\ TransformQuiet /\ FetchQuiet /\ CacheStart /\ ServerQuiet

\* the event loop runs the continuation of an await whose promise has settled
FairFetch ==
  FairFetchInit /\ [][FetchNext]_vars /\ \A r \in Callers : WF_vars(FetchReturn(r))

\* ------------------------------------------------------------------------
\* The clock and the background sweep (shared by the cache and the server)
\* ------------------------------------------------------------------------

\* time passes; a timer that is due runs before the clock moves on (a tick
\* is far longer than the lateness of a timer)
Tick ==
  /\ now < MaxTime
  /\ now < nextSweep
  /\ now' = now + 1
  /\ lastGet' = NoGet
  /\ lastRes' = NoResponse
  /\ UNCHANGED <<proc, ui, raw, out, pool, fetch, ENABLE_CACHING, nextSweep, cache,
                 lastSet, handler>>

\* the setInterval callback, every CACHE_TTL
Sweep ==
  /\ now = nextSweep
  /\ cache' = sweptCache
  /\ nextSweep' = nextSweep + CACHE_TTL
  /\ lastGet' = NoGet
  /\ lastRes' = NoResponse
  /\ UNCHANGED <<proc, ui, raw, out, pool, fetch, ENABLE_CACHING, now, lastSet, handler>>

\* ------------------------------------------------------------------------
\* Specification of the cache alone: direct calls of getCache and setCache
\* ------------------------------------------------------------------------

CacheKeys == {"all_a", "all_b"}

CacheValues == {"v1", "v2"}

CacheInit ==
  /\ pool = {}
  /\ ENABLE_CACHING \in BOOLEAN
  /\ TransformQuiet /\ FetchQuiet /\ CacheStart /\ ServerQuiet

\* setCache(key, v); lastSet remembers the latest call on each key
CallSetCache(key, v) ==
  /\ cache' = setCache(key, v)
  /\ lastSet' = [k \in DOMAIN lastSet \cup {key} |->
                   IF k = key THEN SetRecord(key, v) ELSE lastSet[k]]
  /\ lastGet' = NoGet
  /\ UNCHANGED <<proc, ui, raw, out, pool, fetch, ENABLE_CACHING, now, nextSweep,
                 handler, lastRes>>

\* getCache(key); lastGet holds what the call that just ran returned
CallGetCache(key) ==
  /\ lastGet' = [called |-> TRUE, key |-> key, value |-> getCache(key)]
  /\ cache' = cacheAfterGet(key)
  /\ UNCHANGED <<proc, ui, raw, out, pool, fetch, ENABLE_CACHING, now, nextSweep,
                 lastSet, handler, lastRes>>

CacheNext ==
  \/ \E key \in CacheKeys, v \in CacheValues : CallSetCache(key, v)
  \/ \E key \in CacheKeys : CallGetCache(key)
  \/ Tick
  \/ Sweep

SpecCache == CacheInit /\ [][CacheNext]_vars

\* ------------------------------------------------------------------------
\* Properties of the cache
\* ------------------------------------------------------------------------

\* C2: with caching enabled, a getCache(key) at time t after the latest
\* setCache(key, v) at time T returns v if t - T <= CACHE_TTL and returns
\* absent if t - T > CACHE_TTL.
C2_TtlBoundary ==
  (ENABLE_CACHING /\ lastGet.called /\ lastGet.key \in DOMAIN lastSet) =>
    LET set == lastSet[lastGet.key]
    IN /\ now - set.timestamp <= CACHE_TTL => lastGet.value = <<set.data>>
       /\ now - set.timestamp > CACHE_TTL => lastGet.value = <<>>

\* a hit at the very end of the time-to-live, a sweep having run meanwhile
C2_Witness ==
  /\ ENABLE_CACHING
  /\ lastGet.called
  /\ lastGet.key \in DOMAIN lastSet
  /\ now - lastSet[lastGet.key].timestamp = CACHE_TTL
  /\ lastGet.value = <<lastSet[lastGet.key].data>>
  /\ nextSweep > now + 1

\* ------------------------------------------------------------------------
\* Validation helpers and GET /api/insider-trades
\* ------------------------------------------------------------------------

Valid == [valid |-> TRUE, error |-> ""]

Invalid(msg) == [valid |-> FALSE, error |-> msg]

validateDate(date) ==
  IF date.form = "absent" THEN Valid
  ELSE IF date.form # "ymd" THEN Invalid("Invalid date format. Use YYYY-MM-DD format.")
  ELSE IF ParseDate(date) = NaN THEN Invalid("Invalid date.")
  ELSE Valid

\* a range check that lets equal dates through
validateDateRangeLax(from, to) ==
  IF from.form = "absent" \/ to.form = "absent" THEN Valid
  ELSE IF ParseDate(to) < ParseDate(from)
       THEN Invalid("Invalid date range. 'to' date must be after 'from' date.")
       ELSE Valid

validateDateRange(from, to) ==
  IF from.form = "absent" \/ to.form = "absent" THEN Valid
  ELSE IF ParseDate(to) <= ParseDate(from)
       THEN Invalid("Invalid date range. 'to' date must be after 'from' date.")
       ELSE Valid

\* the three checks of the handler, in order: the first failure, if any
Validation(from, to) ==
  IF ~validateDate(from).valid THEN validateDate(from)
  ELSE IF ~validateDate(to).valid THEN validateDate(to)
  ELSE validateDateRange(from, to)

\* the day of the request
Today == Ymd(2025, 1, 20)

\* toISOString().split('T')[0] of a Date: the calendar date of a day number
FormatDate(n) ==
  CHOOSE s \in {Ymd(y, m, d) : y \in 2024..2025, m \in 1..12, d \in 1..31} :
    s.d <= DaysInMonth(s.y, s.m) /\ ParseDate(s) = n

\* to || today
DefaultTo == FormatDate(ParseDate(Today))

\* from || (today minus 30 days)
DefaultFrom == FormatDate(ParseDate(Today) - 30)

toDateOf(to) == IF to.form = "absent" THEN DefaultTo ELSE to

fromDateOf(from) == IF from.form = "absent" THEN DefaultFrom ELSE from

\* `all_${fromDate}_${toDate}`
cacheKey(fromDate, toDate) == <<"all", fromDate, toDate>>

\* an error payload that always carries status code 500
ErrorBodyAlways500(msg, code) == [success |-> FALSE, error |-> msg, statusCode |-> 500]

\* the payload of a failure: success:false, the message, the status code
ErrorBody(msg, code) == [success |-> FALSE, error |-> msg, statusCode |-> code]

\* the error payload for an error thrown inside the handler
handleFinnhubError(error) ==
  IF error.response # <<>> THEN
    CASE error.response[1] = 401 -> ErrorBody("Invalid API key configuration", 500)
      [] error.response[1] = 429 ->
           ErrorBody("API rate limit exceeded. Please try again later.", 429)
      [] error.response[1] = 404 -> ErrorBody("Resource not found", 404)
      [] OTHER -> ErrorBody("Failed to fetch data from Finnhub API", 502)
  ELSE IF error.request
       THEN ErrorBody("Service temporarily unavailable. Please try again.", 503)
       ELSE ErrorBody("Internal server error", 500)

responseData(allTransactions) ==
  [ success |-> TRUE, data |-> allTransactions, timestamp |-> now,
    count |-> Len(allTransactions), symbolsQueried |-> Len(MAJOR_SYMBOLS),
    cached |-> FALSE ]

\* the requests the dashboard or any client may send: (from, to)
Queries ==
  { <<Absent, Absent>>, <<D1, D5>>, <<D5, D5>>, <<D5, D1>>,
    <<Other, D5>>, <<D1, Other>>, <<Absent, Ymd(2024, 12, 1)>> }

\* the handler up to its first await: validation, defaulting, cache lookup,
\* then either the response (400 or cache hit) or the start of the fan-out.
\* lastRes is the response this step sent, with the request it answers, the
\* number of getCache calls and of upstream requests made for it.
Receive(r, from, to) ==
  /\ handler[r].pc = "idle"
  /\ \A q \in 1..(r - 1) : handler[q].pc # "idle"
  /\ IF ~Validation(from, to).valid
     THEN /\ lastRes' = [ sent |-> TRUE, by |-> r, from |-> from, to |-> to,
                          key |-> <<>>, lookups |-> 0, issued |-> 0, status |-> 400,
                          body |-> ErrorBody(Validation(from, to).error, 400) ]
          /\ handler' = [handler EXCEPT ![r].pc = "done"]
          /\ UNCHANGED <<cache, fetch>>
     ELSE LET key == cacheKey(fromDateOf(from), toDateOf(to))
              cachedData == getCache(key)
          IN /\ cache' = cacheAfterGet(key)
             /\ IF cachedData # <<>>
                THEN /\ lastRes' = [ sent |-> TRUE, by |-> r, from |-> from, to |-> to,
                                     key |-> key, lookups |-> 1, issued |-> 0,
                                     status |-> 200,
                                     body |-> [cachedData[1] EXCEPT !.cached = TRUE] ]
                     /\ handler' = [handler EXCEPT ![r].pc = "done"]
                     /\ UNCHANGED fetch
                ELSE /\ fetch' = [fetch EXCEPT ![r] = StartedFetch]
                     /\ handler' = [handler EXCEPT ![r] =
                          [pc |-> "fetching", key |-> key, from |-> from, to |-> to]]
                     /\ lastRes' = NoResponse
  /\ UNCHANGED <<proc, ui, raw, out, pool, ENABLE_CACHING, now, nextSweep, lastSet, lastGet>>

\* the handler after the await: fetchAllTransactions returns, the response is
\* built, cached and sent; a throw goes to the catch block
Complete(r) ==
  /\ handler[r].pc = "fetching"
  /\ fetch[r].status = "running"
  /\ PromiseAllState(fetch[r].promises) # "pending"
  /\ LET sent == [ sent |-> TRUE, by |-> r, from |-> handler[r].from,
                   to |-> handler[r].to, key |-> handler[r].key, lookups |-> 1,
                   issued |-> Len(fetch[r].promises), status |-> 0,
                   body |-> [success |-> FALSE] ]
     IN IF ResumedFetch(fetch[r]).status = "threw"
        THEN /\ lastRes' = [sent EXCEPT
                  !.status = handleFinnhubError(Rejection(fetch[r].promises)).statusCode,
                  !.body = handleFinnhubError(Rejection(fetch[r].promises))]
             /\ UNCHANGED <<cache, lastSet>>
        ELSE /\ cache' = setCache(handler[r].key,
                                  responseData(ResumedFetch(fetch[r]).result))
             /\ lastSet' = [k \in DOMAIN lastSet \cup {handler[r].key} |->
                              IF k = handler[r].key
                              THEN SetRecord(k, responseData(ResumedFetch(fetch[r]).result))
                              ELSE lastSet[k]]
             /\ lastRes' = [sent EXCEPT !.status = 200,
                  !.body = responseData(ResumedFetch(fetch[r]).result)]
  /\ fetch' = [fetch EXCEPT ![r] = NoFetch]
  /\ handler' = [handler EXCEPT ![r] = [IdleHandler EXCEPT !.pc = "done"]]
  /\ UNCHANGED <<proc, ui, raw, out, pool, ENABLE_CACHING, now, nextSweep, lastGet>>

\* what the upstream answers while the server is under test
ServerPayloads == { Payload(<<Rec("AAPL", D5, 10)>>) }

Init ==
  /\ pool = ServerPayloads
  /\ ENABLE_CACHING \in BOOLEAN
  /\ TransformQuiet /\ FetchQuiet /\ CacheStart /\ ServerQuiet

Next ==
  \/ \E r \in Handlers, q \in Queries : Receive(r, q[1], q[2])
  \/ \E r \in Handlers, i \in 1..Len(MAJOR_SYMBOLS), p \in pool : UpstreamOk(r, i, p)
  \/ \E r \in Handlers, i \in 1..Len(MAJOR_SYMBOLS), e \in UpstreamErrors :
       UpstreamError(r, i, e)
  \/ \E r \in Handlers : Complete(r)
  \/ Tick
  \/ Sweep

Spec == Init /\ [][Next]_vars

\* ------------------------------------------------------------------------
\* Properties of the transform
\* ------------------------------------------------------------------------

KeyOf(r) == <<r.symbol, r.filingDate, r.personName, r.share>>

HasSymbol(t) == t.symbol # <<>> /\ t.symbol # <<"">>

NonZeroShare(t) == t.share # <<>> /\ t.share # <<0>>

HasDate(x) == x # <<>> /\ x # <<Absent>>

Qualifies(t) ==
  HasSymbol(t) /\ NonZeroShare(t) /\ (HasDate(t.filingDate) \/ HasDate(t.transactionDate))

QualifyingIdx == {i \in 1..Len(raw.data) : Qualifies(raw.data[i])}

Rank(i) == Cardinality({j \in QualifyingIdx : j <= i})

HasDefaults(t, r) ==
  /\ r.symbol = t.symbol[1]
  /\ r.personName = (IF t.name \in {<<>>, <<"">>} THEN "Unknown" ELSE t.name[1])
  /\ r.share >= 0 /\ r.share \in {t.share[1], 0 - t.share[1]}
  /\ r.change = (IF t.change = <<>> THEN 0 ELSE t.change[1])
  /\ r.filingDate = (IF HasDate(t.filingDate) THEN t.filingDate[1]
                     ELSE t.transactionDate[1])
  /\ r.transactionPrice = (IF t.transactionPrice = <<>> THEN 0
                           ELSE t.transactionPrice[1])

\* C6: among the mapped entries of one payload, exactly the first entry of
\* each distinct key (symbol, filingDate, personName, share) is in the result
\* and every later entry of that key is dropped, whatever its other fields.
C6_DedupFirstWins ==
  out.called =>
    LET M == out.transformed
        R == out.result
    IN /\ Len(R) = Cardinality({KeyOf(M[i]) : i \in 1..Len(M)})
       /\ \A i \in 1..Len(M) :
            (\A j \in 1..(i - 1) : KeyOf(M[j]) # KeyOf(M[i])) =>
              /\ Cardinality({k \in 1..Len(R) : KeyOf(R[k]) = KeyOf(M[i])}) = 1
              /\ \A k \in 1..Len(R) : KeyOf(R[k]) = KeyOf(M[i]) => R[k] = M[i]

\* a payload with two entries of one key that differ outside the key
C6_Witness ==
  /\ out.called
  /\ Len(out.transformed) = 2
  /\ KeyOf(out.transformed[1]) = KeyOf(out.transformed[2])
  /\ out.transformed[1] # out.transformed[2]
  /\ out.result = <<out.transformed[1]>>

\* C7: before dedup, a raw entry yields a record iff it has a symbol, a
\* non-zero share and a filingDate or transactionDate, and each record
\* carries the entry's fields with the stated defaults.
C7_Filtering ==
  (out.called /\ raw.hasData) =>
    /\ Len(out.transformed) = Cardinality(QualifyingIdx)
    /\ \A i \in QualifyingIdx :
         HasDefaults(raw.data[i], out.transformed[Rank(i)])

\* one entry dropped for its zero share, one kept with every default applied
C7_Witness ==
  /\ out.called
  /\ Len(raw.data) = 2
  /\ raw.data[1].share = <<0>> /\ HasSymbol(raw.data[1])
  /\ raw.data[2] = Entry(<<"AAPL">>, <<>>, <<-100>>, <<>>, <<D1>>, <<>>, <<>>, <<>>)
  /\ Len(out.transformed) = 1
  /\ out.transformed[1].personName = "Unknown"
  /\ out.transformed[1].share = 100
  /\ out.transformed[1].filingDate = D1

\* ------------------------------------------------------------------------
\* Properties of fetchAllTransactions
\* ------------------------------------------------------------------------

Count(x, seq) == Cardinality({k \in 1..Len(seq) : seq[k] = x})

Elems(seq) == {seq[k] : k \in 1..Len(seq)}

\* the transformed payload of a symbol that succeeded, nothing for the others
Contribution(promise) ==
  IF promise.upstream = "ok" THEN transformFinnhubData(promise.payload) ELSE <<>>

RECURSIVE CountIn(_, _, _)
CountIn(x, promises, n) ==
  IF n = 0 THEN 0
  ELSE CountIn(x, promises, n - 1) + Count(x, Contribution(promises[n]))

Settled(promises) ==
  \A i \in 1..Len(promises) : promises[i].upstream # "pending"

\* C1: whatever subset of the per-symbol requests fails, the call does not
\* throw, and what it returns holds exactly the records of the transformed
\* payloads of the symbols that succeeded (a failed symbol adds none).
C1_FaultTolerance ==
  \A r \in Callers :
    /\ fetch[r].status # "threw"
    /\ fetch[r].status = "returned" =>
         LET P == fetch[r].promises
             all == Elems(fetch[r].result) \cup
                    UNION {Elems(Contribution(P[i])) : i \in 1..Len(P)}
         IN \A x \in all : Count(x, fetch[r].result) = CountIn(x, P, Len(P))

\* a call that returned the records of the second symbol after the first failed
C1_Witness ==
  \E r \in Callers :
    /\ fetch[r].status = "returned"
    /\ fetch[r].promises[1].upstream = "error"
    /\ fetch[r].promises[2].upstream = "ok"
    /\ Len(fetch[r].result) = 2

\* C5: the returned list is non-increasing in filingDate over its full length.
C5_SortedDescending ==
  \A r \in Callers :
    fetch[r].status = "returned" =>
      \A k \in 1..(Len(fetch[r].result) - 1) :
        ParseDate(fetch[r].result[k].filingDate) >=
          ParseDate(fetch[r].result[k + 1].filingDate)

\* the first symbol answered an older filing than the second: the newer
\* record is first in the merge
C5_Witness ==
  \E r \in Callers :
    /\ fetch[r].status = "returned"
    /\ fetch[r].promises[1].payload = Payload(<<Rec("AAPL", D1, 10)>>)
    /\ fetch[r].promises[2].payload = Payload(<<Rec("MSFT", D3, 10), Rec("MSFT", D5, 10)>>)
    /\ Len(fetch[r].result) = 3
    /\ fetch[r].result[1].filingDate = D5
    /\ fetch[r].result[3].filingDate = D1

\* C8: no two records of the returned list have the same (symbol, filingDate,
\* personName, share).
C8_UniqueMerged ==
  \A r \in Callers :
    fetch[r].status = "returned" =>
      \A i, j \in 1..Len(fetch[r].result) :
        i # j => KeyOf(fetch[r].result[i]) # KeyOf(fetch[r].result[j])

\* C9: the call has returned only when every per-symbol request has settled,
\* failed ones included, and once all have settled it does return.
C9_SettleAllBarrier ==
  \A r \in Callers :
    /\ [](fetch[r].status \in {"returned", "threw"} => Settled(fetch[r].promises))
    /\ (fetch[r].status = "running" /\ Settled(fetch[r].promises))
         ~> (fetch[r].status = "returned")

\* one call still waits for its second request after the first failed, while
\* another has returned with a failure among its settled requests
C9_Witness ==
  /\ fetch[1].status = "running"
  /\ fetch[1].promises[1].upstream = "error"
  /\ fetch[1].promises[2].upstream = "pending"
  /\ fetch[2].status = "returned"
  /\ fetch[2].promises[2].upstream = "error"

\* ------------------------------------------------------------------------
\* Properties of GET /api/insider-trades
\* ------------------------------------------------------------------------

\* the range a request asks for once the omitted sides are defaulted
\* (today is 2025-01-20, thirty days earlier is 2024-12-21)
RangeOf(from, to) ==
  <<IF from = Absent THEN Ymd(2024, 12, 21) ELSE from,
    IF to = Absent THEN Ymd(2025, 1, 20) ELSE to>>

Hit == lastRes.sent /\ lastRes.status = 200 /\ lastRes.body.cached

Miss == lastRes.sent /\ lastRes.status = 200 /\ ~lastRes.body.cached

OnePerSymbol(promises) ==
  /\ Len(promises) = Len(MAJOR_SYMBOLS)
  /\ \A i \in 1..Len(MAJOR_SYMBOLS) :
       Cardinality({j \in 1..Len(promises) : promises[j].symbol = MAJOR_SYMBOLS[i]}) = 1

\* C3: a response with cached:true made no upstream request and is the
\* payload that the latest aggregation for the same defaulted range stored,
\* at most CACHE_TTL earlier, with only the cached flag set.
C3_CacheHitPath ==
  Hit =>
    /\ lastRes.issued = 0
    /\ fetch[lastRes.by] = NoFetch
    /\ lastRes.key = <<"all">> \o RangeOf(lastRes.from, lastRes.to)
    /\ lastRes.key \in DOMAIN lastSet
    /\ now - lastSet[lastRes.key].timestamp \in 0..CACHE_TTL
    /\ lastSet[lastRes.key].data.cached = FALSE
    /\ lastRes.body = [lastSet[lastRes.key].data EXCEPT !.cached = TRUE]

\* the second request is served from what the first stored CACHE_TTL ago,
\* the other range not being cached
C3_Witness ==
  /\ Hit
  /\ lastRes.by = 2
  /\ now - lastSet[lastRes.key].timestamp = CACHE_TTL
  /\ lastRes.body.count > 0
  /\ DOMAIN cache = {lastRes.key}

\* C4 as stated: every cache miss issues one upstream request per tracked
\* symbol and stores its response under the range key before responding
\* with cached:false.
C4_MissAlwaysStores ==
  /\ \A r \in Handlers :
       handler[r].pc = "fetching" => OnePerSymbol(fetch[r].promises)
  /\ Miss =>
       /\ lastRes.issued = Len(MAJOR_SYMBOLS)
       /\ lastRes.key \in DOMAIN cache
       /\ cache[lastRes.key] = [data |-> lastRes.body, timestamp |-> now]

\* C4, amended: every cache miss issues one upstream request per tracked
\* symbol, each of several overlapping misses its own, and responds with
\* cached:false; with caching enabled it has stored that response under the
\* range key, with caching disabled nothing is stored.
C4_MissPath ==
  /\ \A r \in Handlers :
       handler[r].pc = "fetching" => OnePerSymbol(fetch[r].promises)
  /\ Miss =>
       /\ lastRes.issued = Len(MAJOR_SYMBOLS)
       /\ lastRes.key = <<"all">> \o RangeOf(lastRes.from, lastRes.to)
       /\ ENABLE_CACHING =>
            /\ lastRes.key \in DOMAIN cache
            /\ cache[lastRes.key] = [data |-> lastRes.body, timestamp |-> now]
       /\ ~ENABLE_CACHING => cache = EmptyMap

\* two overlapping misses of one range: the first has just stored and sent
\* its response while the second still waits for its own fan-out
C4_Witness ==
  /\ Miss
  /\ ENABLE_CACHING
  /\ lastRes.by = 1
  /\ cache[lastRes.key].data = lastRes.body
  /\ handler[2].pc = "fetching"
  /\ handler[2].key = lastRes.key
  /\ OnePerSymbol(fetch[2].promises)

Before(a, b) ==
  \/ a.y < b.y
  \/ (a.y = b.y /\ a.m < b.m)
  \/ (a.y = b.y /\ a.m = b.m /\ a.d < b.d)

\* from or to is not of the YYYY-MM-DD form, or both are given and to is not
\* strictly after from
Malformed(from, to) ==
  \/ from.form = "other"
  \/ to.form = "other"
  \/ (from.form = "ymd" /\ to.form = "ymd" /\ ~Before(from, to))

\* C10: a request with a malformed from or to, or with to not strictly after
\* from, is answered 400, and the step that answers it issues no upstream
\* request and neither reads nor modifies the cache.
C10_MalformedRejected ==
  [][(lastRes'.sent /\ Malformed(lastRes'.from, lastRes'.to)) =>
       /\ lastRes'.status = 400
       /\ lastRes'.body.success = FALSE
       /\ lastRes'.body.statusCode = 400
       /\ lastRes'.lookups = 0
       /\ lastRes'.issued = 0
       /\ cache' = cache
       /\ fetch' = fetch]_vars

\* a request with to equal to from rejected while the cache holds an entry
C10_Witness ==
  /\ lastRes.sent
  /\ lastRes.from = D5 /\ lastRes.to = D5
  /\ lastRes.status = 400
  /\ cache # EmptyMap

\* C11: every call of fetchAllTransactions(from, to) made by the handler has
\* from strictly before to, whichever side of the range was defaulted.
C11_FromBeforeTo ==
  \A r \in Handlers :
    handler[r].pc = "fetching" => Before(handler[r].key[2], handler[r].key[3])

\* every per-symbol request of the call of handler r was answered 401
AllUnauthorized(r) ==
  /\ handler[r].pc = "fetching"
  /\ \A i \in 1..Len(fetch[r].promises) :
       fetch[r].promises[i].error = <<Unauthorized>>

\* C12: when the upstream answers 401 to every per-symbol request, the
\* response is a server configuration error, not a success.
C12_AuthFailureSurfaced ==
  [][\A r \in Handlers :
       (AllUnauthorized(r) /\ lastRes'.sent /\ lastRes'.by = r) =>
         (lastRes'.status = 500 /\ lastRes'.body.success = FALSE)]_vars

\* ------------------------------------------------------------------------
\* Further properties of the cache
\* ------------------------------------------------------------------------

\* the keys the handler may look up or store under
RequestKeys == {<<"all">> \o RangeOf(q[1], q[2]) : q \in Queries}

\* C13: with caching turned off, setCache leaves the map as it is and a
\* getCache right after it returns absent, the map is empty in every
\* reachable state, and every successful response comes from a full
\* aggregation.
C13_CacheDisabled ==
  ~ENABLE_CACHING =>
    /\ cache = EmptyMap
    /\ \A k \in RequestKeys :
         /\ setCache(k, responseData(<<>>)) = cache
         /\ getCache(k) = <<>>
    /\ ~Hit
    /\ (lastRes.sent /\ lastRes.status = 200) =>
         lastRes.issued = Len(MAJOR_SYMBOLS)

\* caching is off: the first request has called setCache for a range and
\* answered, and the second, for the same range at the same time, has found
\* nothing and runs its own aggregation
C13_Witness ==
  /\ ~ENABLE_CACHING
  /\ handler[1].pc = "done"
  /\ handler[2].pc = "fetching"
  /\ handler[2].key \in DOMAIN lastSet
  /\ lastSet[handler[2].key].timestamp = now
  /\ OnePerSymbol(fetch[2].promises)

\* C14: a getCache(key) that finds an entry older than CACHE_TTL deletes that
\* entry and returns absent; any other getCache leaves the map unchanged; no
\* getCache changes the entry of another key.
C14_GetCacheFrame ==
  [][lastGet'.called =>
       LET key == lastGet'.key
       IN IF ENABLE_CACHING /\ key \in DOMAIN cache
             /\ now - cache[key].timestamp > CACHE_TTL
          THEN /\ lastGet'.value = <<>>
               /\ DOMAIN cache' = DOMAIN cache \ {key}
               /\ \A k \in DOMAIN cache' : cache'[k] = cache[k]
          ELSE cache' = cache]_vars

\* a getCache has just evicted the entry of its key, one tick past its
\* time-to-live, and the other key's entry, also expired, is still in the map
C14_Witness ==
  /\ ENABLE_CACHING
  /\ lastGet.called
  /\ lastGet.value = <<>>
  /\ lastGet.key \in DOMAIN lastSet
  /\ lastGet.key \notin DOMAIN cache
  /\ now - lastSet[lastGet.key].timestamp = CACHE_TTL + 1
  /\ \E k \in DOMAIN cache : now - cache[k].timestamp > CACHE_TTL

\* C15: with caching enabled, setCache(key, v) at time T replaces whatever the
\* map held for key by (v, T) and leaves the entries of the other keys
\* unchanged; getCache(key) then returns v, and keeps returning the value of
\* the latest setCache until CACHE_TTL after it.
C15_SetCacheOverwrites ==
  /\ [](ENABLE_CACHING =>
          \A k \in DOMAIN lastSet :
            now - lastSet[k].timestamp <= CACHE_TTL => getCache(k) = <<lastSet[k].data>>)
  /\ [][(ENABLE_CACHING /\ lastSet' # lastSet) =>
          \E key \in DOMAIN lastSet' :
            /\ \A k \in DOMAIN lastSet' \ {key} :
                 k \in DOMAIN lastSet /\ lastSet'[k] = lastSet[k]
            /\ DOMAIN cache' = DOMAIN cache \cup {key}
            /\ cache'[key] = [data |-> lastSet'[key].data, timestamp |-> now]
            /\ \A k \in DOMAIN cache \ {key} : cache'[k] = cache[k]]_vars

\* a setCache has just replaced an expired entry holding another value, and
\* the entry of the other key, expired as well, is untouched
C15_Witness ==
  /\ ENABLE_CACHING
  /\ \E key \in DOMAIN lastSet :
       /\ lastSet[key].timestamp = now
       /\ lastSet[key].prior # <<>>
       /\ lastSet[key].prior[1].data # lastSet[key].data
       /\ now - lastSet[key].prior[1].timestamp > CACHE_TTL
       /\ cache[key] = [data |-> lastSet[key].data, timestamp |-> now]
       /\ \E k \in DOMAIN cache \ {key} : now - cache[k].timestamp > CACHE_TTL

\* C16: the sweep runs once every CACHE_TTL; right after it the map holds no
\* entry older than CACHE_TTL and every entry of age at most CACHE_TTL is
\* still there with its value and timestamp.
C16_SweepPostcondition ==
  /\ [](nextSweep - now \in 0..CACHE_TTL /\ nextSweep % CACHE_TTL = 0)
  /\ [][nextSweep' # nextSweep =>
          /\ now = nextSweep
          /\ now' = now
          /\ nextSweep' = nextSweep + CACHE_TTL
          /\ DOMAIN cache' =
               {k \in DOMAIN cache : now - cache[k].timestamp <= CACHE_TTL}
          /\ \A k \in DOMAIN cache' : cache'[k] = cache[k]]_vars

\* the second sweep has just run: a value stored more than CACHE_TTL ago is
\* gone and an entry exactly CACHE_TTL old is still in the map
C16_Witness ==
  /\ ENABLE_CACHING
  /\ nextSweep = now + CACHE_TTL
  /\ now = 2 * CACHE_TTL
  /\ \E k \in DOMAIN lastSet \ DOMAIN cache :
       now - lastSet[k].timestamp > CACHE_TTL
  /\ \E k \in DOMAIN cache : now - cache[k].timestamp = CACHE_TTL

\* ------------------------------------------------------------------------
\* Further properties of the transform
\* ------------------------------------------------------------------------

\* C17: every record produced by transformFinnhubData has transactionCode
\* 'P', 'S' or 'N/A'.
C17_TransactionCodeDomain ==
  out.called =>
    \A i \in 1..Len(out.result) :
      out.result[i].transactionCode \in {"P", "S", "N/A"}

\* C18: every record produced by transformFinnhubData has a transactionPrice
\* that is not negative.
C18_NonNegativePrice ==
  out.called =>
    \A i \in 1..Len(out.result) : out.result[i].transactionPrice >= 0

\* ------------------------------------------------------------------------
\* Specification of validateDate alone: one date string, validated
\* ------------------------------------------------------------------------

\* the values of a from or to query parameter: absent, a string not of the
\* YYYY-MM-DD form, and the strings of that form with any two-digit month up
\* to 13 and any two-digit day up to 32
DateStrings ==
  {Absent, Other} \cup {Ymd(y, m, d) : y \in 2024..2025, m \in 0..13, d \in 0..32}

ValidateInit ==
  /\ raw \in DateStrings
  /\ out = NotCalled
  /\ pool = {}
  /\ ENABLE_CACHING = TRUE
  /\ FetchQuiet /\ CacheStart /\ ServerQuiet

Validate ==
  /\ ~out.called
  /\ out' = [called |-> TRUE, transformed |-> <<>>, result |-> <<validateDate(raw)>>]
  /\ UNCHANGED <<proc, ui, raw, pool, fetch, ENABLE_CACHING, now, nextSweep, cache,
                 lastSet, lastGet, handler, lastRes>>

SpecValidate == ValidateInit /\ [][Validate]_vars

\* a string of the YYYY-MM-DD form that names a day of the calendar
RealCalendarDate(s) ==
  /\ s.form = "ymd"
  /\ s.m \in 1..12
  /\ s.d \in 1..DaysInMonth(s.y, s.m)

\* C19: validateDate accepts a non-empty string only if it has the YYYY-MM-DD
\* form and names a real calendar date.
C19_DateValidity ==
  (out.called /\ raw # Absent) =>
    (out.result[1].valid <=> RealCalendarDate(raw))

\* ------------------------------------------------------------------------
\* The earnings calendar function (GET /api/earnings)
\* ------------------------------------------------------------------------

EarningsIdle == [pc |-> "idle", request |-> <<>>, response |-> <<>>]

\* to || today
EarningsDefaultTo == FormatDate(ParseDate(Today))

\* from || (today plus 7 days)
EarningsDefaultFrom == FormatDate(ParseDate(Today) + 7)

\* an item of earningsCalendar; name is optional
EarningsItem(date, symbol, name) ==
  [ date |-> date, symbol |-> symbol, name |-> name, epsEstimate |-> <<1>>,
    epsActual |-> <<>>, revenueEstimate |-> <<>>, revenueActual |-> <<>>,
    quarter |-> <<1>>, year |-> <<2025>> ]

\* the body of earnings.map
MapEarningsItem(item) ==
  [item EXCEPT !.name = IF TruthyStr(item.name) THEN item.name ELSE <<item.symbol>>]

\* the place of s[i] after the stable sort with comparator
\* new Date(a.date) - new Date(b.date)
EarningsPosition(s, i) ==
  1 + Cardinality({j \in 1..Len(s) :
        \/ ParseDate(s[j].date) < ParseDate(s[i].date)
        \/ (ParseDate(s[j].date) = ParseDate(s[i].date) /\ j < i)})

\* transformedData after the sort; t is the mapped list, evaluated once
TransformedEarnings(earnings) ==
  CHOOSE sorted \in
    { [p \in 1..Len(t) |-> t[CHOOSE i \in 1..Len(t) : EarningsPosition(t, i) = p]] :
        t \in {[i \in 1..Len(earnings) |-> MapEarningsItem(earnings[i])]} } : TRUE

\* what the catch block answers to an error with the given message
EarningsFailure(message) ==
  [ success |-> FALSE, error |-> "Failed to fetch earnings calendar",
    details |-> message, statusCode |-> 500 ]

Answered(status, body) ==
  [pc |-> "done", request |-> <<>>, response |-> <<[status |-> status, body |-> body]>>]

\* the handler up to the await of axios.get; raw is the request: its method,
\* whether the API key is configured, and the from and to of the query
EarningsReceive ==
  /\ out.pc = "idle"
  /\ out' =
       IF raw.method = "OPTIONS" THEN Answered(200, [success |-> TRUE])
       ELSE IF ~raw.key
       THEN Answered(500, ErrorBody("Server configuration error. API key not found.", 500))
       ELSE IF ~validateDate(raw.from).valid
       THEN Answered(400, ErrorBody(validateDate(raw.from).error, 400))
       ELSE IF ~validateDate(raw.to).valid
       THEN Answered(400, ErrorBody(validateDate(raw.to).error, 400))
       ELSE [ pc |-> "awaiting",
              request |-> <<[ from |-> IF raw.from.form = "absent"
                                       THEN EarningsDefaultFrom ELSE raw.from,
                              to |-> IF raw.to.form = "absent"
                                     THEN EarningsDefaultTo ELSE raw.to ]>>,
              response |-> <<>> ]
  /\ UNCHANGED <<proc, ui, raw, pool, fetch, ENABLE_CACHING, now, nextSweep, cache,
                 lastSet, lastGet, handler, lastRes>>

\* the upstream answers 2xx: response.data.earningsCalendar || [] is mapped,
\* sorted and sent; a response without data makes the property access throw
EarningsOk(payload) ==
  /\ out.pc = "awaiting"
  /\ out' =
       IF ~payload.hasData
       THEN Answered(500, EarningsFailure("Cannot read properties of undefined"))
       ELSE LET transformedData == TransformedEarnings(payload.earningsCalendar)
            IN Answered(200, [ success |-> TRUE, data |-> transformedData,
                               timestamp |-> now, count |-> Len(transformedData) ])
  /\ UNCHANGED <<proc, ui, raw, pool, fetch, ENABLE_CACHING, now, nextSweep, cache,
                 lastSet, lastGet, handler, lastRes>>

\* axios.get rejects (timeout, network error, non-2xx)
EarningsError ==
  /\ out.pc = "awaiting"
  /\ out' = Answered(500, EarningsFailure("timeout of 10000ms exceeded"))
  /\ UNCHANGED <<proc, ui, raw, pool, fetch, ENABLE_CACHING, now, nextSweep, cache,
                 lastSet, lastGet, handler, lastRes>>

EarningsDates == {Absent, Other, D1, D3, D5, Ymd(2025, 2, 1)}

EarningsQueries ==
  {[method |-> "GET", key |-> k, from |-> f, to |-> t] :
     k \in BOOLEAN, f \in EarningsDates, t \in EarningsDates}
  \cup {[method |-> "OPTIONS", key |-> TRUE, from |-> Absent, to |-> Absent]}

\* what the upstream may answer: no body, a body without earningsCalendar
\* (an empty list stands for it), and calendars in and out of date order
EarningsPayloads ==
  { [hasData |-> FALSE, earningsCalendar |-> <<>>],
    [hasData |-> TRUE, earningsCalendar |-> <<>>],
    [hasData |-> TRUE, earningsCalendar |->
       <<EarningsItem(D5, "MSFT", <<>>), EarningsItem(D1, "AAPL", <<"Apple">>),
         EarningsItem(D5, "AAPL", <<"">>)>>] }

EarningsInit ==
  /\ raw \in EarningsQueries
  /\ out = EarningsIdle
  /\ pool = EarningsPayloads
  /\ ENABLE_CACHING = TRUE
  /\ FetchQuiet /\ CacheStart /\ ServerQuiet

EarningsNext ==
  \/ EarningsReceive
  \/ \E payload \in pool : EarningsOk(payload)
  \/ EarningsError

SpecEarnings == EarningsInit /\ [][EarningsNext]_vars

\* C20: when the earnings query omits both from and to, the upstream is
\* queried from the request day to the request day plus 7, so that from does
\* not come after to.
C20_EarningsDefaultWindow ==
  (out.pc = "awaiting" /\ raw.method = "GET" /\ raw.from = Absent /\ raw.to = Absent) =>
    /\ out.request[1].from = Ymd(2025, 1, 20)
    /\ out.request[1].to = Ymd(2025, 1, 27)
    /\ ~Before(out.request[1].to, out.request[1].from)

\* ------------------------------------------------------------------------
\* Error reporting of GET /api/insider-trades
\* ------------------------------------------------------------------------

\* the errors the catch block of the handler may be handed: an upstream
\* answer with a status, no answer, and an error raised before any request
CaughtErrors ==
  {[response |-> <<st>>, request |-> TRUE] : st \in {401, 404, 429, 500}}
  \cup {NoResponseError, [response |-> <<>>, request |-> FALSE]}

\* a payload with success:false, a message and a numeric status code
Structured(body) ==
  /\ DOMAIN body = {"success", "error", "statusCode"}
  /\ body.success = FALSE
  /\ body.error # ""
  /\ body.statusCode \in 400..599

\* C21: every failure the handler reports, for a validation failure or for an
\* error it caught, is a payload with success:false, an error message and a
\* numeric statusCode, sent with that statusCode as HTTP status.
C21_StructuredErrors ==
  /\ (lastRes.sent /\ lastRes.status # 200) =>
       (Structured(lastRes.body) /\ lastRes.status = lastRes.body.statusCode)
  /\ \A q \in Queries :
       ~Validation(q[1], q[2]).valid =>
         Structured(ErrorBody(Validation(q[1], q[2]).error, 400))
  /\ \A error \in CaughtErrors : Structured(handleFinnhubError(error))

\* a request with to before from has just been answered 400
C21_Witness ==
  /\ lastRes.sent
  /\ lastRes.status = 400
  /\ lastRes.from = D5 /\ lastRes.to = D1
  /\ lastRes.body.error = "Invalid date range. 'to' date must be after 'from' date."

\* every per-symbol request of the call of handler r has failed
AllFailed(r) ==
  /\ handler[r].pc = "fetching"
  /\ \A i \in 1..Len(fetch[r].promises) : fetch[r].promises[i].upstream = "error"

\* the response to an aggregation in which every symbol failed
EmptySuccess(res) ==
  /\ res.status = 200
  /\ res.body.success
  /\ res.body.data = <<>>
  /\ res.body.count = 0
  /\ ~res.body.cached

\* C28 as stated: when every per-symbol request fails the handler answers
\* success:true with an empty list and count 0 and stores that response under
\* the range key, from where later requests are served.
C28_TotalFailureAlwaysCached ==
  [][\A r \in Handlers :
       (AllFailed(r) /\ lastRes'.sent /\ lastRes'.by = r) =>
         /\ EmptySuccess(lastRes')
         /\ lastRes'.key \in DOMAIN cache'
         /\ cache'[lastRes'.key].data = lastRes'.body]_vars

\* C28, amended: when every per-symbol request fails the handler answers
\* success:true with an empty list and count 0; with caching enabled it
\* stores that response under the range key, and a later request for the
\* range within CACHE_TTL is answered with the empty list and cached:true
\* without any upstream request.
C28_TotalFailureCached ==
  /\ [][\A r \in Handlers :
          (AllFailed(r) /\ lastRes'.sent /\ lastRes'.by = r) =>
            /\ EmptySuccess(lastRes')
            /\ ENABLE_CACHING =>
                 /\ lastRes'.key \in DOMAIN cache'
                 /\ cache'[lastRes'.key] = [data |-> lastRes'.body, timestamp |-> now]
                 /\ lastSet'[lastRes'.key].data = lastRes'.body]_vars
  /\ []((Hit /\ lastSet[lastRes.key].data.count = 0) =>
          /\ lastRes.body.data = <<>>
          /\ lastRes.body.count = 0
          /\ lastRes.body.success
          /\ lastRes.issued = 0
          /\ fetch[lastRes.by] = NoFetch)

\* the second request is answered from the cache with the empty list the
\* first one stored
C28_Witness ==
  /\ Hit
  /\ lastRes.by = 2
  /\ lastRes.body.data = <<>>
  /\ lastRes.body.count = 0
  /\ lastSet[lastRes.key].data.data = <<>>

\* ------------------------------------------------------------------------
\* Lifetime of a cache entry
\* ------------------------------------------------------------------------

\* C26: with caching enabled no entry of the map is older than 2*CACHE_TTL,
\* and no entry has survived a sweep that ran later than CACHE_TTL after it
\* was stored: an entry stored at T that is neither read nor overwritten is
\* removed by the sweep that runs in (T + CACHE_TTL, T + 2*CACHE_TTL].
C26_SweepBoundsLifetime ==
  ENABLE_CACHING =>
    \A k \in DOMAIN cache :
      /\ now - cache[k].timestamp <= 2 * CACHE_TTL
      /\ nextSweep <= cache[k].timestamp + 2 * CACHE_TTL

\* an entry stored right after a sweep and never read again has outlived
\* CACHE_TTL, and the second sweep after it has just removed it
C26_Witness ==
  /\ ENABLE_CACHING
  /\ \E k \in DOMAIN lastSet :
       /\ lastSet[k].timestamp = 0
       /\ now = lastSet[k].timestamp + 2 * CACHE_TTL
       /\ nextSweep > now
       /\ k \notin DOMAIN cache

\* ------------------------------------------------------------------------
\* The merge of the per-symbol lists
\* ------------------------------------------------------------------------

\* what the chain of promise i delivers, as a function of the upstream outcome
\* alone, when transformFinnhubData leaves its result unsorted
UnsortedValue(promise) ==
  IF promise.upstream = "ok" THEN uniqueTransactions(promise.payload) ELSE <<>>

\* C25: the list fetchAllTransactions returns is the global sort of the
\* concatenation of the deduplicated per-symbol lists taken without their
\* per-symbol sort: same records, same order, ties included.  The filing
\* dates are calendar dates, as the upstream sends them.
C25_PerSymbolSortRedundant ==
  \A r \in Callers :
    fetch[r].status = "returned" =>
      fetch[r].result =
        SortByFilingDate(Flat([i \in 1..Len(fetch[r].promises) |->
                                 UnsortedValue(fetch[r].promises[i])]))

\* a call has returned for which the per-symbol sort reordered one list and
\* another list holds two records of the same filing date
C25_Witness ==
  \E r \in Callers :
    /\ fetch[r].status = "returned"
    /\ UnsortedValue(fetch[r].promises[1]) # fetch[r].promises[1].value
    /\ Len(fetch[r].promises[2].value) = 2
    /\ fetch[r].promises[2].value[1].filingDate = fetch[r].promises[2].value[2].filingDate

\* the upstream outcome of every symbol of a call: answered or failed, and the
\* payload
Outcomes(f) ==
  [i \in 1..Len(f.promises) |->
     [upstream |-> f.promises[i].upstream, payload |-> f.promises[i].payload]]

\* C27: two calls of fetchAllTransactions whose per-symbol outcomes are the
\* same return the same list, in whatever order their requests completed;
\* records of equal filing date stand in the order of their fetch in the
\* symbol list.
C27_CompletionOrderIndependence ==
  \A r1, r2 \in Callers :
    (/\ fetch[r1].status = "returned"
     /\ fetch[r2].status = "returned"
     /\ Outcomes(fetch[r1]) = Outcomes(fetch[r2])) =>
      /\ fetch[r1].result = fetch[r2].result
      /\ fetch[r1].result =
           SortByFilingDate(Flat([i \in 1..Len(fetch[r1].promises) |->
                                    fetch[r1].promises[i].value]))

\* two calls with the same outcomes, completed in different orders, have
\* returned the same list, which holds records of one filing date from both
\* symbols
C27_Witness ==
  /\ fetch[1].status = "returned"
  /\ fetch[2].status = "returned"
  /\ Outcomes(fetch[1]) = Outcomes(fetch[2])
  /\ fetch[1].settled = <<1, 2>>
  /\ fetch[2].settled = <<2, 1>>
  /\ fetch[1].result = fetch[2].result
  /\ fetch[1].promises[1].value # <<>>
  /\ fetch[1].promises[2].value # <<>>
  /\ fetch[1].promises[1].value[1].filingDate = fetch[1].promises[2].value[1].filingDate

\* ------------------------------------------------------------------------
\* Shutdown of the server process
\* ------------------------------------------------------------------------

\* the delay of the forced-exit timer (10000 ms), in clock ticks
ShutdownTimeout == 2

ShutdownSignals == {"SIGTERM", "SIGINT", "UNCAUGHT_EXCEPTION", "UNHANDLED_REJECTION"}

Alive == proc.exit = <<>>

\* a close callback that exits without clearing the cache
ServerCloseCallbackNoClear == [cache |-> cache, exit |-> <<0>>]

\* the callback handed to server.close: cache.clear(), process.exit(0)
ServerCloseCallback == [cache |-> EmptyMap, exit |-> <<0>>]

\* a handler of SIGTERM, SIGINT, uncaughtException or unhandledRejection runs
\* gracefulShutdown: the server stops listening, the callback waits for the
\* close event and a timer is set; every further signal sets one more timer
GracefulShutdown(signal) ==
  /\ Alive
  /\ proc' = IF proc.server
             THEN [proc EXCEPT !.phase = "closing",
                               !.signal = signal,
                               !.timers = @ \cup {proc.elapsed + ShutdownTimeout}]
             ELSE [proc EXCEPT !.phase = "exited", !.signal = signal, !.exit = <<0>>]
  /\ UNCHANGED <<ui, raw, out, pool, fetch, ENABLE_CACHING, now, nextSweep, cache,
                 lastSet, lastGet, handler, lastRes>>

\* time passes while the server is closing; a timer that is due fires first
ShutdownWait ==
  /\ Alive
  /\ proc.phase = "closing"
  /\ \A t \in proc.timers : proc.elapsed < t
  /\ proc' = [proc EXCEPT !.elapsed = @ + 1]
  /\ UNCHANGED <<ui, raw, out, pool, fetch, ENABLE_CACHING, now, nextSweep, cache,
                 lastSet, lastGet, handler, lastRes>>

\* the last connection has ended: the server emits close and the callback runs
ServerClosed ==
  /\ Alive
  /\ proc.phase = "closing"
  /\ cache' = ServerCloseCallback.cache
  /\ proc' = [proc EXCEPT !.phase = "closed", !.exit = ServerCloseCallback.exit]
  /\ UNCHANGED <<ui, raw, out, pool, fetch, ENABLE_CACHING, now, nextSweep,
                 lastSet, lastGet, handler, lastRes>>

\* a forced-exit timer fires: process.exit(1)
ForcedExit ==
  /\ Alive
  /\ proc.phase = "closing"
  /\ proc.elapsed \in proc.timers
  /\ proc' = [proc EXCEPT !.phase = "exited", !.exit = <<1>>]
  /\ UNCHANGED <<ui, raw, out, pool, fetch, ENABLE_CACHING, now, nextSweep, cache,
                 lastSet, lastGet, handler, lastRes>>

ShutdownInit ==
  /\ pool = {}
  /\ ENABLE_CACHING = TRUE
  /\ TransformQuiet /\ FetchQuiet /\ CacheStart /\ ServerQuiet

\* requests on open connections still store responses while the process lives
ShutdownNext ==
  \/ Alive /\ \E key \in CacheKeys, v \in CacheValues : CallSetCache(key, v)
  \/ \E signal \in ShutdownSignals : GracefulShutdown(signal)
  \/ ShutdownWait
  \/ ServerClosed
  \/ ForcedExit

\* time passes and due timers fire; nothing obliges the connections to end
SpecShutdown ==
  ShutdownInit /\ [][ShutdownNext]_vars /\ WF_vars(ShutdownWait) /\ WF_vars(ForcedExit)

\* C22: once a shutdown signal was handled the process exits; it exits with
\* code 0 only from the close callback, after the server closed and with the
\* cache cleared, and with code 1 only when the server has not closed within
\* the timeout after the first signal.
C22_ShutdownLifecycle ==
  /\ (proc.signal # "") ~> (proc.exit # <<>>)
  /\ [](proc.exit = <<0>> => (proc.phase = "closed" /\ cache = EmptyMap))
  /\ [](proc.exit = <<1>> =>
          (proc.phase = "exited" /\ proc.elapsed = ShutdownTimeout))
  /\ [](proc.elapsed <= ShutdownTimeout)

\* the server closed in time after SIGTERM: a non-empty cache was cleared and
\* the process exited with code 0
C22_Witness ==
  /\ proc.signal = "SIGTERM"
  /\ proc.exit = <<0>>
  /\ proc.elapsed = 1
  /\ DOMAIN lastSet # {}
  /\ cache = EmptyMap

\* ------------------------------------------------------------------------
\* debounce(fn, delay) of the dashboard and of the tracker
\* ------------------------------------------------------------------------

\* the delay handed to debounce (300 ms), in clock ticks
DEBOUNCE_DELAY == 2

\* the number of calls of the debounced function that are followed
MaxCalls == 3

\* the time up to which the page is followed
DebounceHorizon == 2 * DEBOUNCE_DELAY + 2

\* the arguments of a call
CallArgs == {"a", "b"}

\* no timer is pending
NoTimer == <<>>

\* the page right after debounce(fn, delay) returned the debounced function;
\* calls lists the calls of the debounced function, invoked those of fn
DebounceStart ==
  [ page |-> "debounce", clock |-> 0, timer |-> NoTimer,
    calls |-> <<>>, invoked |-> <<>> ]

\* a debounced function that leaves a pending timer in place
debouncedKeepFirst(u, args) ==
  [u EXCEPT !.timer = IF u.timer = NoTimer
                      THEN <<[due |-> u.clock + DEBOUNCE_DELAY, args |-> args]>>
                      ELSE @,
            !.calls = Append(@, [time |-> u.clock, args |-> args])]

\* the debounced function: clearTimeout(timer); timer = setTimeout(..., delay)
debounced(u, args) ==
  [u EXCEPT !.timer = <<[due |-> u.clock + DEBOUNCE_DELAY, args |-> args]>>,
            !.calls = Append(@, [time |-> u.clock, args |-> args])]

\* the timer callback: fn.apply(this, args) with the arguments of the call
\* that set the timer
later(u) ==
  [u EXCEPT !.timer = NoTimer,
            !.invoked = Append(@, [time |-> u.clock, args |-> u.timer[1].args])]

DebounceInit ==
  /\ pool = {}
  /\ ENABLE_CACHING = TRUE
  /\ TransformQuiet /\ FetchQuiet /\ CacheStart
  /\ handler = [r \in Handlers |-> IdleHandler]
  /\ lastRes = NoResponse
  /\ proc = Running
  /\ ui = DebounceStart

\* an input event calls the debounced function
DebouncedCall(args) ==
  /\ Len(ui.calls) < MaxCalls
  /\ ui' = debounced(ui, args)
  /\ UNCHANGED <<proc, raw, out, pool, fetch, ENABLE_CACHING, now, nextSweep, cache,
                 lastSet, lastGet, handler, lastRes>>

\* the pending timer fires
TimerFires ==
  /\ ui.timer # NoTimer
  /\ ui.timer[1].due = ui.clock
  /\ ui' = later(ui)
  /\ UNCHANGED <<proc, raw, out, pool, fetch, ENABLE_CACHING, now, nextSweep, cache,
                 lastSet, lastGet, handler, lastRes>>

\* time passes in the browser; a timer that is due fires before the clock
\* moves on
DebounceTick ==
  /\ ui.clock < DebounceHorizon
  /\ ui.timer # NoTimer => ui.clock < ui.timer[1].due
  /\ ui' = [ui EXCEPT !.clock = @ + 1]
  /\ UNCHANGED <<proc, raw, out, pool, fetch, ENABLE_CACHING, now, nextSweep, cache,
                 lastSet, lastGet, handler, lastRes>>

DebounceNext ==
  \/ \E args \in CallArgs : DebouncedCall(args)
  \/ TimerFires
  \/ DebounceTick

SpecDebounce == DebounceInit /\ [][DebounceNext]_vars

\* call i is the last of a burst that is over: the next call, if any, came
\* more than the delay later
BurstOver(i) ==
  IF i = Len(ui.calls) THEN ui.clock > ui.calls[i].time + DEBOUNCE_DELAY
  ELSE ui.calls[i + 1].time > ui.calls[i].time + DEBOUNCE_DELAY

\* the first call of the burst call i belongs to
BurstStart(i) ==
  CHOOSE j \in 1..i :
    /\ \A k \in j..(i - 1) : ui.calls[k + 1].time - ui.calls[k].time < DEBOUNCE_DELAY
    /\ \A h \in 1..(j - 1) :
         \E k \in h..(i - 1) : ui.calls[k + 1].time - ui.calls[k].time >= DEBOUNCE_DELAY

\* C24: every invocation of the wrapped function happens DEBOUNCE_DELAY after
\* a call, with that call's arguments and with no call in between; and a
\* burst of calls less than DEBOUNCE_DELAY apart causes exactly one
\* invocation, DEBOUNCE_DELAY after its last call with that call's arguments.
C24_Debounce ==
  /\ \A k \in 1..Len(ui.invoked) :
       /\ \E i \in 1..Len(ui.calls) :
            /\ ui.calls[i].time + DEBOUNCE_DELAY = ui.invoked[k].time
            /\ ui.calls[i].args = ui.invoked[k].args
            /\ \A j \in (i + 1)..Len(ui.calls) :
                 ui.calls[j].time >= ui.invoked[k].time
       /\ \A j \in 1..Len(ui.calls) :
            ~(/\ ui.invoked[k].time - DEBOUNCE_DELAY < ui.calls[j].time
              /\ ui.calls[j].time < ui.invoked[k].time)
  /\ \A i \in 1..Len(ui.calls) :
       BurstOver(i) =>
         LET during == {k \in 1..Len(ui.invoked) :
                          /\ ui.invoked[k].time > ui.calls[BurstStart(i)].time
                          /\ ui.invoked[k].time <= ui.calls[i].time + DEBOUNCE_DELAY}
         IN /\ Cardinality(during) = 1
            /\ \A k \in during :
                 /\ ui.invoked[k].time = ui.calls[i].time + DEBOUNCE_DELAY
                 /\ ui.invoked[k].args = ui.calls[i].args

\* a burst of three calls, each one tick after the other and with changing
\* arguments, has caused one invocation, with the arguments of the last call
C24_Witness ==
  /\ Len(ui.calls) = 3
  /\ ui.calls[1] = [time |-> 0, args |-> "a"]
  /\ ui.calls[2] = [time |-> 1, args |-> "a"]
  /\ ui.calls[3] = [time |-> 2, args |-> "b"]
  /\ ui.invoked = <<[time |-> 2 + DEBOUNCE_DELAY, args |-> "b"]>>
  /\ ui.clock > 2 + DEBOUNCE_DELAY

\* ------------------------------------------------------------------------
\* The tracker page: loadData and fetchInsiderTrades with its retries
\* ------------------------------------------------------------------------

MAX_RETRIES == 3

\* milliseconds
RETRY_DELAY == 1000

\* what one request may end in: a payload with success:true and a data
\* array, one with success:true and no data array, or an error
GoodAnswers == {[success |-> TRUE, data |-> <<<<>>>>], [success |-> TRUE, data |-> <<<<"t1", "t2">>>>]}

NoDataAnswer == [success |-> TRUE, data |-> <<>>]

AttemptErrors == {"HTTP error! status: 500", "Failed to fetch", "API request failed"}

\* the state object, the position of the running loadData and what its call
\* of fetchInsiderTrades has done: requests issued, delays awaited, errors
\* caught, result; inflight counts the loadData calls past their guard;
\* event is what happened last
TrackerStart ==
  [ page |-> "tracker", isLoading |-> FALSE,
    dateFrom |-> Absent, dateTo |-> Absent, allTrades |-> <<>>,
    inflight |-> 0, pc |-> "idle", retryCount |-> 0,
    requests |-> 0, waits |-> <<>>, errors |-> <<>>, result |-> <<>>,
    shown |-> "", event |-> "none" ]

getErrorMessage(message) ==
  IF message = "Failed to fetch" THEN "Unable to connect. Please check your connection."
  ELSE message

\* a retry test that allows one retry more
RetryAllowedInclusive(retryCount) == retryCount <= MAX_RETRIES

\* retryCount < CONFIG.MAX_RETRIES
RetryAllowed(retryCount) == retryCount < MAX_RETRIES

\* a guard that never holds
GuardedNever(u) == FALSE

\* if (state.isLoading) return;
Guarded(u) == u.isLoading

\* loadData up to its first await: past the guard it sets isLoading and calls
\* fetchInsiderTrades(), which issues the first request
loadData(u, event) ==
  IF Guarded(u) THEN [u EXCEPT !.event = "skipped"]
  ELSE [u EXCEPT !.isLoading = TRUE, !.inflight = @ + 1, !.shown = "",
                 !.pc = "fetching", !.retryCount = 0, !.requests = 1,
                 !.waits = <<>>, !.errors = <<>>, !.result = <<>>,
                 !.event = event]

\* the finally block of loadData
Finally(u) == [u EXCEPT !.isLoading = FALSE, !.inflight = @ - 1, !.pc = "idle"]

\* fetchInsiderTrades returns data and loadData goes on to its end
Returned(u, data) ==
  Finally([u EXCEPT !.result = <<[kind |-> "returned", data |-> data]>>,
                    !.allTrades = IF data.data # <<>> THEN data.data[1] ELSE @,
                    !.shown = IF data.data # <<>> THEN @
                              ELSE getErrorMessage("Invalid data format received"),
                    !.event = "response"])

\* the catch block of fetchInsiderTrades: another attempt after a delay, or
\* the error is thrown on to loadData, which shows it
Caught(u, error) ==
  IF RetryAllowed(u.retryCount)
  THEN [u EXCEPT !.pc = "waiting",
                 !.errors = Append(@, error),
                 !.waits = Append(@, RETRY_DELAY * (u.retryCount + 1)),
                 !.event = "response"]
  ELSE Finally([u EXCEPT !.errors = Append(@, error),
                         !.result = <<[kind |-> "threw", error |-> error]>>,
                         !.shown = getErrorMessage(error),
                         !.event = "response"])

TrackerInit ==
  /\ pool = {}
  /\ ENABLE_CACHING = TRUE
  /\ TransformQuiet /\ FetchQuiet /\ CacheStart
  /\ handler = [r \in Handlers |-> IdleHandler]
  /\ lastRes = NoResponse
  /\ proc = Running
  /\ ui = TrackerStart

\* init, a click on refresh or the r key: loadData()
HandleRefresh ==
  /\ ui.page = "tracker"
  /\ ui' = loadData(ui, "refresh")
  /\ UNCHANGED <<proc, raw, out, pool, fetch, ENABLE_CACHING, now, nextSweep, cache,
                 lastSet, lastGet, handler, lastRes>>

\* the debounced body of applyDateFilters runs with the values of the inputs
ApplyDateFilters(from, to) ==
  /\ ui.page = "tracker"
  /\ LET u == [ui EXCEPT !.dateFrom = from, !.dateTo = to]
     IN ui' = IF /\ from # Absent
                 /\ to # Absent
                 /\ ParseDate(to) < ParseDate(from)
              THEN [u EXCEPT !.shown = "End date must be after start date",
                             !.event = "invalid"]
              ELSE loadData(u, "filter")
  /\ UNCHANGED <<proc, raw, out, pool, fetch, ENABLE_CACHING, now, nextSweep, cache,
                 lastSet, lastGet, handler, lastRes>>

\* the request answers with success:true
AnswerOk(data) ==
  /\ ui.pc = "fetching"
  /\ ui' = Returned(ui, data)
  /\ UNCHANGED <<proc, raw, out, pool, fetch, ENABLE_CACHING, now, nextSweep, cache,
                 lastSet, lastGet, handler, lastRes>>

\* the request fails: no answer, a status that is not ok, or success:false
AnswerError(error) ==
  /\ ui.pc = "fetching"
  /\ ui' = Caught(ui, error)
  /\ UNCHANGED <<proc, raw, out, pool, fetch, ENABLE_CACHING, now, nextSweep, cache,
                 lastSet, lastGet, handler, lastRes>>

\* the delay is over: fetchInsiderTrades(retryCount + 1) issues its request
RetryAfterDelay ==
  /\ ui.pc = "waiting"
  /\ ui' = [ui EXCEPT !.pc = "fetching", !.retryCount = @ + 1,
                      !.requests = @ + 1, !.event = "timer"]
  /\ UNCHANGED <<proc, raw, out, pool, fetch, ENABLE_CACHING, now, nextSweep, cache,
                 lastSet, lastGet, handler, lastRes>>

\* the request in flight settles
RequestSettles ==
  \/ \E data \in GoodAnswers \cup {NoDataAnswer} : AnswerOk(data)
  \/ \E error \in AttemptErrors : AnswerError(error)

TrackerNext ==
  \/ HandleRefresh
  \/ \E from, to \in {Absent, D1, D5} : ApplyDateFilters(from, to)
  \/ RequestSettles
  \/ RetryAfterDelay

SpecTracker == TrackerInit /\ [][TrackerNext]_vars

\* every request is answered or fails, and every delay ends
FairTracker ==
  /\ SpecTracker
  /\ WF_vars(RequestSettles)
  /\ WF_vars(RetryAfterDelay)

\* C23: one call of fetchInsiderTrades issues at most MAX_RETRIES + 1
\* requests, waits RETRY_DELAY * k before its k-th retry, returns on the first
\* answer that succeeds without a further request, throws the error of the
\* last attempt once MAX_RETRIES + 1 attempts have failed, and always ends.
C23_BoundedRetry ==
  /\ [](/\ ui.requests <= MAX_RETRIES + 1
        /\ ui.waits = [k \in 1..Len(ui.waits) |-> RETRY_DELAY * k]
        /\ ui.pc = "fetching" => (Len(ui.waits) = ui.requests - 1 /\ ui.result = <<>>)
        /\ ui.pc = "waiting" => (Len(ui.waits) = ui.requests /\ ui.result = <<>>)
        /\ \A k \in 1..Len(ui.result) :
             /\ ui.pc = "idle"
             /\ ui.result[k].kind = "returned" =>
                  (/\ Len(ui.errors) = ui.requests - 1
                   /\ Len(ui.waits) = ui.requests - 1)
             /\ ui.result[k].kind = "threw" =>
                  (/\ ui.requests = MAX_RETRIES + 1
                   /\ Len(ui.errors) = MAX_RETRIES + 1
                   /\ ui.waits = <<RETRY_DELAY, 2 * RETRY_DELAY, 3 * RETRY_DELAY>>
                   /\ ui.result[k].error = ui.errors[MAX_RETRIES + 1]))
  /\ (ui.pc # "idle") ~> (ui.result # <<>>)

\* four attempts have failed with different errors and the call threw the
\* last one
C23_Witness ==
  /\ ui.page = "tracker"
  /\ ui.requests = 4
  /\ ui.waits = <<1000, 2000, 3000>>
  /\ ui.errors = <<"Failed to fetch", "Failed to fetch", "HTTP error! status: 500",
                   "API request failed">>
  /\ ui.result = <<[kind |-> "threw", error |-> "API request failed"]>>

\* C29: at most one loadData is past its guard; a loadData called while
\* isLoading is true changes nothing: no request, no timer, no later reload;
\* and isLoading is true exactly while a load is in progress, so it is false
\* again when the load has ended in success or in failure.
C29_SingleLoadInFlight ==
  /\ [](/\ ui.inflight <= 1
        /\ ui.isLoading <=> ui.inflight = 1
        /\ ui.isLoading <=> ui.pc # "idle"
        /\ ui.result # <<>> => ~ui.isLoading)
  /\ [][(ui.isLoading /\ ui'.event \in {"skipped", "refresh", "filter"}
           /\ ui'.event # ui.event) =>
          /\ ui'.event = "skipped"
          /\ ui' = [ui EXCEPT !.event = "skipped",
                              !.dateFrom = ui'.dateFrom, !.dateTo = ui'.dateTo]]_vars

\* a refresh arrived while a load was waiting for its second retry and
\* changed nothing
C29_Witness ==
  /\ ui.page = "tracker"
  /\ ui.event = "skipped"
  /\ ui.isLoading
  /\ ui.pc = "waiting"
  /\ ui.requests = 2

\* ------------------------------------------------------------------------
\* The dashboard page: filters, sorting and pagination of the two tables
\* ------------------------------------------------------------------------

rowsPerPage == 25

Trade(symbol, name, code, share, price) ==
  [ symbol |-> symbol, name |-> name, transactionCode |-> code,
    share |-> share, transactionPrice |-> price ]

\* the lists an answer of /api/insider-trades may carry: none, two full pages
\* of purchases and sales in turn, one record more than a page
TradeLists ==
  { <<>>,
    [i \in 1..(2 * rowsPerPage) |->
       IF i % 2 = 0 THEN Trade("AAPL", "Cook", "P", 1000, 2000)
       ELSE Trade("MSFT", "Nadella", "S", 10, 50)],
    [i \in 1..(rowsPerPage + 1) |-> Trade("AAPL", "Cook", "P", 10, 50)] }

\* the lists an answer of /api/earnings may carry
EarningsLists ==
  { <<>>,
    [i \in 1..(2 * rowsPerPage) |->
       [symbol |-> IF i % 2 = 0 THEN "AAPL" ELSE "MSFT"]],
    [i \in 1..(rowsPerPage + 1) |-> [symbol |-> "AAPL"]] }

\* text.toLowerCase().includes(typed.toLowerCase()) for the texts and the
\* typed strings of the model
Includes(text, typed) ==
  \/ typed = ""
  \/ typed = "aa" /\ text = "AAPL"
  \/ typed = "cook" /\ text = "Cook"

\* the state of the script once init has installed the listeners
DashboardStart ==
  [ page |-> "dashboard",
    allTrades |-> <<>>, allEarnings |-> <<>>,
    filteredTrades |-> <<>>, filteredEarnings |-> <<>>,
    currentPage |-> 1, earningsCurrentPage |-> 1,
    sortColumn |-> "", sortDirection |-> "desc",
    earningsSortColumn |-> "", earningsSortDirection |-> "desc",
    filters |-> [ticker |-> "", insider |-> "", amount |-> "all", side |-> "all"],
    earningsFilters |-> [search |-> ""],
    error |-> FALSE ]

\* the callback of allTrades.filter in applyFilters
KeepTrade(f, trade) ==
  LET value == trade.share * trade.transactionPrice
  IN /\ ~(f.ticker # "" /\ ~Includes(trade.symbol, f.ticker))
     /\ ~(f.insider # "" /\ ~Includes(trade.name, f.insider))
     /\ f.amount # "all" =>
          /\ ~(f.amount = "1-100k" /\ (value < 1 \/ value > 100000))
          /\ ~(f.amount = "100k-1m" /\ (value < 100000 \/ value > 1000000))
          /\ ~(f.amount = "1m+" /\ value < 1000000)
     /\ f.side # "all" =>
          /\ ~(f.side = "buy" /\ trade.transactionCode # "P")
          /\ ~(f.side = "sell" /\ trade.transactionCode # "S")

\* applyFilters()
applyFilters(u) ==
  [u EXCEPT !.filteredTrades = LET Keep(trade) == KeepTrade(u.filters, trade)
                               IN SelectSeq(u.allTrades, Keep),
            !.currentPage = 1]

\* applyEarningsFilters()
applyEarningsFilters(u) ==
  [u EXCEPT !.filteredEarnings =
              LET Keep(earning) ==
                    ~(u.earningsFilters.search # ""
                      /\ ~Includes(earning.symbol, u.earningsFilters.search))
              IN SelectSeq(u.allEarnings, Keep),
            !.earningsCurrentPage = 1]

\* a last page computed one too high when the rows fill the pages exactly
maxPagePlusOne(length) == length \div rowsPerPage + 1

\* Math.ceil(length / rowsPerPage)
maxPage(length) == (length + rowsPerPage - 1) \div rowsPerPage

\* a click on a column header
SortClick(column, direction, col) ==
  IF column = col
  THEN [column |-> column, direction |-> IF direction = "asc" THEN "desc" ELSE "asc"]
  ELSE [column |-> col, direction |-> "desc"]

DashboardInit ==
  /\ pool = {}
  /\ ENABLE_CACHING = TRUE
  /\ TransformQuiet /\ FetchQuiet /\ CacheStart
  /\ handler = [r \in Handlers |-> IdleHandler]
  /\ lastRes = NoResponse
  /\ proc = Running
  /\ ui = DashboardStart

\* a request of fetchInsiderTrades is answered with success:true
TradesLoaded(data) ==
  /\ ui' = applyFilters([ui EXCEPT !.allTrades = data])
  /\ UNCHANGED <<proc, raw, out, pool, fetch, ENABLE_CACHING, now, nextSweep, cache,
                 lastSet, lastGet, handler, lastRes>>

\* a request of fetchEarnings is answered with success:true
EarningsLoaded(data) ==
  /\ ui' = applyEarningsFilters([ui EXCEPT !.allEarnings = data])
  /\ UNCHANGED <<proc, raw, out, pool, fetch, ENABLE_CACHING, now, nextSweep, cache,
                 lastSet, lastGet, handler, lastRes>>

\* a request of either table fails: the catch block shows the error banner
LoadFailed ==
  /\ ui' = [ui EXCEPT !.error = TRUE]
  /\ UNCHANGED <<proc, raw, out, pool, fetch, ENABLE_CACHING, now, nextSweep, cache,
                 lastSet, lastGet, handler, lastRes>>

\* typing in the ticker input: the handler stores the text and calls the
\* debounced applyFilters
TickerInput(ticker) ==
  /\ ui' = [ui EXCEPT !.filters.ticker = ticker]
  /\ UNCHANGED <<proc, raw, out, pool, fetch, ENABLE_CACHING, now, nextSweep, cache,
                 lastSet, lastGet, handler, lastRes>>

\* typing in the insider input
InsiderInput(insider) ==
  /\ ui' = [ui EXCEPT !.filters.insider = insider]
  /\ UNCHANGED <<proc, raw, out, pool, fetch, ENABLE_CACHING, now, nextSweep, cache,
                 lastSet, lastGet, handler, lastRes>>

\* the timer of the debounced applyFilters fires
DebouncedApplyFilters ==
  /\ ui' = applyFilters(ui)
  /\ UNCHANGED <<proc, raw, out, pool, fetch, ENABLE_CACHING, now, nextSweep, cache,
                 lastSet, lastGet, handler, lastRes>>

\* a click on an amount button
AmountClick(amount) ==
  /\ ui' = applyFilters([ui EXCEPT !.filters.amount = amount])
  /\ UNCHANGED <<proc, raw, out, pool, fetch, ENABLE_CACHING, now, nextSweep, cache,
                 lastSet, lastGet, handler, lastRes>>

\* a click on a side button
SideClick(side) ==
  /\ ui' = applyFilters([ui EXCEPT !.filters.side = side])
  /\ UNCHANGED <<proc, raw, out, pool, fetch, ENABLE_CACHING, now, nextSweep, cache,
                 lastSet, lastGet, handler, lastRes>>

\* typing in the earnings search input
EarningsSearchInput(search) ==
  /\ ui' = [ui EXCEPT !.earningsFilters.search = search]
  /\ UNCHANGED <<proc, raw, out, pool, fetch, ENABLE_CACHING, now, nextSweep, cache,
                 lastSet, lastGet, handler, lastRes>>

\* the timer of the debounced applyEarningsFilters fires
DebouncedApplyEarningsFilters ==
  /\ ui' = applyEarningsFilters(ui)
  /\ UNCHANGED <<proc, raw, out, pool, fetch, ENABLE_CACHING, now, nextSweep, cache,
                 lastSet, lastGet, handler, lastRes>>

\* a click on a header of the insider table
SortTrades(col) ==
  /\ ui' = [ui EXCEPT !.sortColumn = SortClick(ui.sortColumn, ui.sortDirection, col).column,
                      !.sortDirection = SortClick(ui.sortColumn, ui.sortDirection, col).direction]
  /\ UNCHANGED <<proc, raw, out, pool, fetch, ENABLE_CACHING, now, nextSweep, cache,
                 lastSet, lastGet, handler, lastRes>>

\* a click on a header of the earnings table
SortEarnings(col) ==
  /\ ui' = [ui EXCEPT
              !.earningsSortColumn =
                 SortClick(ui.earningsSortColumn, ui.earningsSortDirection, col).column,
              !.earningsSortDirection =
                 SortClick(ui.earningsSortColumn, ui.earningsSortDirection, col).direction]
  /\ UNCHANGED <<proc, raw, out, pool, fetch, ENABLE_CACHING, now, nextSweep, cache,
                 lastSet, lastGet, handler, lastRes>>

\* a click on prev-page
PrevPage ==
  /\ ui' = IF ui.currentPage > 1 THEN [ui EXCEPT !.currentPage = @ - 1] ELSE ui
  /\ UNCHANGED <<proc, raw, out, pool, fetch, ENABLE_CACHING, now, nextSweep, cache,
                 lastSet, lastGet, handler, lastRes>>

\* a click on next-page
NextPage ==
  /\ ui' = IF ui.currentPage < maxPage(Len(ui.filteredTrades))
           THEN [ui EXCEPT !.currentPage = @ + 1] ELSE ui
  /\ UNCHANGED <<proc, raw, out, pool, fetch, ENABLE_CACHING, now, nextSweep, cache,
                 lastSet, lastGet, handler, lastRes>>

\* a click on earnings-prev-page
EarningsPrevPage ==
  /\ ui' = IF ui.earningsCurrentPage > 1
           THEN [ui EXCEPT !.earningsCurrentPage = @ - 1] ELSE ui
  /\ UNCHANGED <<proc, raw, out, pool, fetch, ENABLE_CACHING, now, nextSweep, cache,
                 lastSet, lastGet, handler, lastRes>>

\* a click on earnings-next-page
EarningsNextPage ==
  /\ ui' = IF ui.earningsCurrentPage < maxPage(Len(ui.filteredEarnings))
           THEN [ui EXCEPT !.earningsCurrentPage = @ + 1] ELSE ui
  /\ UNCHANGED <<proc, raw, out, pool, fetch, ENABLE_CACHING, now, nextSweep, cache,
                 lastSet, lastGet, handler, lastRes>>

DashboardNext ==
  \/ \E data \in TradeLists : TradesLoaded(data)
  \/ \E data \in EarningsLists : EarningsLoaded(data)
  \/ LoadFailed
  \/ \E ticker \in {"", "aa"} : TickerInput(ticker)
  \/ \E insider \in {"", "cook"} : InsiderInput(insider)
  \/ DebouncedApplyFilters
  \/ \E amount \in {"all", "1m+"} : AmountClick(amount)
  \/ \E side \in {"all", "buy"} : SideClick(side)
  \/ \E search \in {"", "aa"} : EarningsSearchInput(search)
  \/ DebouncedApplyEarningsFilters
  \/ SortTrades("filingDate")
  \/ SortEarnings("date")
  \/ PrevPage
  \/ NextPage
  \/ EarningsPrevPage
  \/ EarningsNextPage

SpecDashboard == DashboardInit /\ [][DashboardNext]_vars

\* max(1, ceil(length / rowsPerPage)): the least number of pages, one at
\* least, that hold the given number of rows
LastPage(length) ==
  CHOOSE n \in 1..(length + 1) :
    /\ n * rowsPerPage >= length
    /\ \A m \in 1..(n - 1) : m * rowsPerPage < length

\* C30: currentPage lies between 1 and max(1, ceil(filteredTrades.length /
\* rowsPerPage)) after any sequence of loads, filter changes, sort clicks and
\* page clicks, and every change of the filtered list puts it back to 1; the
\* same for earningsCurrentPage and filteredEarnings.
C30_PaginationInvariant ==
  /\ [](/\ ui.currentPage \in 1..LastPage(Len(ui.filteredTrades))
        /\ ui.earningsCurrentPage \in 1..LastPage(Len(ui.filteredEarnings)))
  /\ [][/\ ui'.filteredTrades # ui.filteredTrades => ui'.currentPage = 1
        /\ ui'.filteredEarnings # ui.filteredEarnings => ui'.earningsCurrentPage = 1]_vars

\* the second and last page of fifty trades is shown, sorted by filing date
\* ascending, while the earnings table, narrowed by a search to one page,
\* shows its only page
C30_Witness ==
  /\ ui.page = "dashboard"
  /\ Len(ui.filteredTrades) = 2 * rowsPerPage
  /\ ui.currentPage = 2
  /\ ui.sortColumn = "filingDate" /\ ui.sortDirection = "asc"
  /\ ui.earningsFilters.search = "aa"
  /\ Len(ui.filteredEarnings) = rowsPerPage
  /\ ui.earningsCurrentPage = 1

====
